---------------------------- MODULE Spec2Model ----------------------------
(***************************************************************************)
(* A model of the Chronicles-of-Darkness dice roller: the dice engine      *)
(* (roll_dice, roll_again), the modifier resolver (mod_for_str), the       *)
(* expression evaluator (roll_attribs), the formatter (count_successes)    *)
(* and the character attribute store (Character::get_value / set_value).   *)
(*                                                                         *)
(* Text is modelled as a sequence of one-character strings, so that        *)
(* splitting, replacing, matching and formatting are computed character by *)
(* character, the way the Rust code computes them.                         *)
(***************************************************************************)
EXTENDS Integers, Sequences, FiniteSets, TLC

VARIABLES
    \* roll_dice (src/src/commands/roll.rs:111-139)
    pc,            \* position inside roll_dice: start, loop, done, panic, idle
    dice,          \* the `dice` argument, a text
    modifier,      \* the `modifier` argument, a RollModifier
    rolls,         \* the `rolls` vector being built
    first,         \* the `first` flag of the inner loop
    remaining,     \* iterations of the outer `for` still to run
    again,         \* the value roll_again returned for the last die drawn
    \* mod_for_str (roll.rs:51-61)
    s,             \* the `s` argument, a text
    mod_result,    \* the RollModifier returned ("none" before the call)
    \* count_successes (roll.rs:203-207), applied to `rolls`
    summary,       \* the String returned
    \* roll_attribs (roll.rs:149-190)
    character,     \* the `character` argument
    line,          \* the `line` argument, a text
    modifier_token,\* the local `modifier`, the re-roll word taken from the line
    parts,         \* the tokens of the normalised line the loop walks
    idx,           \* position of the loop in `parts`
    pool,          \* the running pool
    multiplier,    \* the pending sign
    attributes,    \* the map of resolved attribute names
    attribs_not_found, \* the unresolved names, in encounter order
    \* Character::set_value / get_value (characters.rs:132-155), on `character`
    calls,         \* the set_value calls made so far, as <<key, value>>
    got,           \* the last get_value call: its key, its result, and the
                   \* number of set_value calls that preceded it
    \* CharacterStore::get / get_mut (characters.rs:182-215)
    store,         \* the `characters` vector of the store
    handle,        \* index of the character get_mut returned (0: none held)
    fetched,       \* the Option get returned
    call,          \* the last store call: its operation and its name argument
    \* CharacterStore::save / from_file (characters.rs:228-252)
    file,          \* the file at LOAD_PATH: missing, or what it holds and
                   \* whether the bot can read it
    saving,        \* the store `save` was called on
    written,       \* the Result `save` returned
    loaded,        \* the Result `from_file` returned
    output,        \* per thread, the local `output` of save: the store as JSON
    wrote,         \* per thread, the bytes of `output` its write_all has written
    shorts,        \* the write calls so far that transferred a part only
    \* the commands `stats` (stats.rs:11-77) and `character`
    \* (character.rs:11-49), one invocation per worker
    cpc,           \* where each worker's handler stands
    input,         \* the command, the author's name and the arguments
    mem,           \* the local `cs`: the characters of the loaded store
    hdl,           \* the local `character`, as an index into `cs`
    plan,          \* the calls left after the if-chain: say, react, save
                   \* (write: a save whose file is open)
    result,        \* the branch the if-chain took
    reply,         \* the lines the handler has sent
    before,        \* the file as it was when the handler started
    seen,          \* what the handler's from_file has read of the file so far
    hint,          \* the file size read_to_string measured after opening
    cap,           \* the capacity of the String read_to_string fills
    saved,         \* whether the handler's save has completed
    started,       \* the number of handlers started
    expected,      \* per author and lower-cased key, the value of the last
                   \* edit whose save completed
    \* the command `roll` (roll.rs:209-295)
    stage,         \* where the handler stands between its calls
    author,        \* message.author: name and id
    content,       \* message.content
    response       \* the line handed to say

diceVars == <<dice, modifier, rolls, first, remaining, again>>
modVars == <<s, mod_result>>

attribVars ==
    <<character, line, modifier_token, parts, idx, pool, multiplier,
      attributes, attribs_not_found>>

charVars == <<calls, got>>

storeVars == <<store, handle, fetched, call>>

\* the state of the store, the file and the commands
fileVars == <<file, saving, written, loaded, output, wrote, shorts>>

cmdVars ==
    <<cpc, input, mem, hdl, plan, result, reply, before, seen, hint, cap, saved,
      started, expected>>

rollVars == <<stage, author, content, response>>

sysVars == <<storeVars, fileVars, cmdVars, rollVars>>

\* what roll_dice leaves alone
notDice == <<modVars, summary, attribVars, charVars, sysVars>>

-----------------------------------------------------------------------------
(* Bounds of the model *)

\* largest integer pool handed to roll_dice
MaxPool == 3
\* the inner loop stops drawing once the roll set holds this many rolls
MaxRolls == 4
\* most set_value calls made on the character
MaxCalls == 3
\* most tokens in a generated line handed to roll_attribs
MaxAttribTokens == 4
\* most fragments in a text handed to mod_for_str
MaxModFrags == 4
\* longest arbitrary roll slice handed to count_successes
MaxCountLen == 3
\* longest roll slice of 7s and 8s handed to count_successes
MaxLongLen == 10
\* most characters in a store handed to save
MaxStoreLen == 2
\* most edit commands handled one after another
MaxSeqCmds == 2
\* most edit commands handled by two workers at once
MaxConcCmds == 2
\* most write calls that transfer only a part of what they were given
MaxShortWrites == 1

-----------------------------------------------------------------------------
(* Text *)

DigitChars == <<"0", "1", "2", "3", "4", "5", "6", "7", "8", "9">>

IsDigit(c) == \E d \in 1..10 : DigitChars[d] = c

DigitVal(c) == (CHOOSE d \in 1..10 : DigitChars[d] = c) - 1

\* u64 / usize / non-negative i64 Display: the decimal digits, no padding
RECURSIVE NatToString(_)
NatToString(n) ==
    IF n < 10 THEN <<DigitChars[n + 1]>>
    ELSE NatToString(n \div 10) \o <<DigitChars[(n % 10) + 1]>>

\* i64 Display
I64ToString(n) == IF n < 0 THEN <<"-">> \o NatToString(-n) ELSE NatToString(n)

\* value of a non-empty run of ASCII digits
RECURSIVE DigitsValue(_)
DigitsValue(t) ==
    IF t = <<>> THEN 0
    ELSE DigitsValue(SubSeq(t, 1, Len(t) - 1)) * 10 + DigitVal(t[Len(t)])

AllDigits(t) == t # <<>> /\ \A i \in 1..Len(t) : IsDigit(t[i])

\* str::parse::<u64>: an optional "+", then one or more digits; anything else
\* (the empty text, a "-", a letter) is an Err.  The overflow Err needs a text
\* of 20 digits or more, longer than any text drawn here.
ParseU64(t) ==
    LET body == IF t # <<>> /\ t[1] = "+" THEN Tail(t) ELSE t
    IN  IF AllDigits(body)
        THEN [ok |-> TRUE, val |-> DigitsValue(body)]
        ELSE [ok |-> FALSE, val |-> 0]

CHANCE == <<"c", "h", "a", "n", "c", "e">>

\* all sequences over S of length 0..n
SeqsUpTo(S, n) == UNION {[1..k -> S] : k \in 0..n}

\* the texts of a sequence, joined end to end
RECURSIVE Concat(_)
Concat(ts) == IF ts = <<>> THEN <<>> ELSE Head(ts) \o Concat(Tail(ts))

\* whether `pat` starts at offset i (0-based) of `t`
StartsAt(t, pat, i) ==
    i + Len(pat) <= Len(t) /\ SubSeq(t, i + 1, i + Len(pat)) = pat

\* str::contains: scan the offsets from the left
RECURSIVE ContainsFrom(_, _, _)
ContainsFrom(t, pat, i) ==
    IF i + Len(pat) > Len(t) THEN FALSE
    ELSE IF StartsAt(t, pat, i) THEN TRUE
    ELSE ContainsFrom(t, pat, i + 1)

Contains(t, pat) == ContainsFrom(t, pat, 0)

\* str::replace: every non-overlapping occurrence of the non-empty `pat`,
\* found from the left, becomes `rep`
RECURSIVE ReplaceFrom(_, _, _, _)
ReplaceFrom(t, pat, rep, i) ==
    IF i >= Len(t) THEN <<>>
    ELSE IF StartsAt(t, pat, i) THEN rep \o ReplaceFrom(t, pat, rep, i + Len(pat))
    ELSE <<t[i + 1]>> \o ReplaceFrom(t, pat, rep, i + 1)

Replace(t, pat, rep) == ReplaceFrom(t, pat, rep, 0)

\* char::is_whitespace, on the characters drawn here
IsWhitespace(c) == c \in {" ", "\t"}

\* str::split_whitespace: the maximal runs of non-whitespace, in order;
\* `cur` is the run being read
RECURSIVE SplitFrom(_, _, _)
SplitFrom(t, i, cur) ==
    IF i > Len(t) THEN (IF cur = <<>> THEN <<>> ELSE <<cur>>)
    ELSE IF IsWhitespace(t[i])
         THEN (IF cur = <<>> THEN <<>> ELSE <<cur>>) \o SplitFrom(t, i + 1, <<>>)
         ELSE SplitFrom(t, i + 1, Append(cur, t[i]))

split_whitespace(t) == SplitFrom(t, 1, <<>>)

UpperChars ==
    <<"A", "B", "C", "D", "E", "F", "G", "H", "I", "J", "K", "L", "M",
      "N", "O", "P", "Q", "R", "S", "T", "U", "V", "W", "X", "Y", "Z">>

LowerChars ==
    <<"a", "b", "c", "d", "e", "f", "g", "h", "i", "j", "k", "l", "m",
      "n", "o", "p", "q", "r", "s", "t", "u", "v", "w", "x", "y", "z">>

\* char lowercase mapping, on ASCII
LowerChar(c) ==
    IF \E k \in 1..26 : UpperChars[k] = c
    THEN LowerChars[CHOOSE k \in 1..26 : UpperChars[k] = c]
    ELSE c

\* str::to_lowercase
to_lowercase(t) == [k \in 1..Len(t) |-> LowerChar(t[k])]

-----------------------------------------------------------------------------
(* RollModifier and roll_again *)

RollModifier == {"Again10", "Again9", "Again8", "NoAgain"}

roll_again_off_by_one(val, m) ==
    \/ m = "Again10" /\ val = 10
    \/ m = "Again9" /\ val > 9
    \/ m = "Again8" /\ val >= 8

roll_again(val, m) ==
    \/ m = "Again10" /\ val = 10
    \/ m = "Again9" /\ val >= 9
    \/ m = "Again8" /\ val >= 8

-----------------------------------------------------------------------------
(* mod_for_str *)

T_no10again == <<"n", "o", "1", "0", "a", "g", "a", "i", "n">>
T_10again == <<"1", "0", "a", "g", "a", "i", "n">>
T_9again == <<"9", "a", "g", "a", "i", "n">>
T_8again == <<"8", "a", "g", "a", "i", "n">>

mod_for_str_exact(t) ==
    IF t = T_no10again THEN "NoAgain"
    ELSE IF t = T_9again THEN "Again9"
    ELSE IF t = T_8again THEN "Again8"
    ELSE "Again10"

mod_for_str(t) ==
    IF Contains(t, T_no10again) THEN "NoAgain"
    ELSE IF Contains(t, T_9again) THEN "Again9"
    ELSE IF Contains(t, T_8again) THEN "Again8"
    ELSE "Again10"

\* fragments of the texts handed to mod_for_str
ModFrags ==
    {<<"n", "o">>, T_10again, T_9again, T_8again, <<"1">>, <<"x">>, <<" ">>}

ModInputs == {Concat(fs) : fs \in SeqsUpTo(ModFrags, MaxModFrags)}

ModIdle == s = <<>> /\ mod_result = "none"

ModInit == pc = "mod" /\ s \in ModInputs /\ mod_result = "none"

ModForStr ==
    /\ pc = "mod"
    /\ mod_result' = mod_for_str(s)
    /\ pc' = "done"
    /\ UNCHANGED <<s, diceVars, summary, attribVars, charVars, sysVars>>

-----------------------------------------------------------------------------
(* roll_dice *)

\* Uniform::new_inclusive(1, 10)
between == 1..10

\* Roll { val, is_bonus }
Roll(val, is_bonus) == [val |-> val, is_bonus |-> is_bonus]

\* the texts handed to roll_dice: "chance", the integer pools 0..MaxPool as the
\* callers write them, and "-1" (the Display of a negative pool)
DiceInputs == {CHANCE} \cup {I64ToString(n) : n \in -1..MaxPool}

DiceIdle ==
    /\ dice = <<>>
    /\ modifier = "Again10"
    /\ rolls = <<>>
    /\ first = TRUE
    /\ remaining = 0
    /\ again = FALSE

DiceInit ==
    /\ pc = "start"
    /\ dice \in DiceInputs
    /\ modifier \in RollModifier
    /\ rolls = <<>>
    /\ first = TRUE
    /\ remaining = 0
    /\ again = FALSE

\* lines 115-120: the chance die, one draw and no re-roll
RollChance_rerolls ==
    /\ pc = "start"
    /\ dice = CHANCE
    /\ \E val \in between :
        /\ rolls' = <<Roll(val, FALSE)>>
        /\ again' = roll_again(val, modifier)
        /\ IF roll_again(val, modifier)
           THEN pc' = "loop" /\ remaining' = 1 /\ first' = FALSE
           ELSE pc' = "done" /\ remaining' = 0 /\ first' = first
    /\ UNCHANGED <<dice, modifier, notDice>>

RollChance ==
    /\ pc = "start"
    /\ dice = CHANCE
    /\ \E val \in between : rolls' = <<Roll(val, FALSE)>>
    /\ pc' = "done"
    /\ UNCHANGED <<dice, modifier, first, remaining, again, notDice>>

\* lines 122-123: `for _ in 1..=dice.parse::<u64>().unwrap()`; the unwrap
\* panics on a text that is no u64, an empty range skips the loop
RollParse ==
    /\ pc = "start"
    /\ dice # CHANCE
    /\ LET n == ParseU64(dice)
       IN  /\ pc' = IF ~n.ok THEN "panic" ELSE IF n.val = 0 THEN "done" ELSE "loop"
           /\ remaining' = n.val
    /\ first' = TRUE
    /\ UNCHANGED <<dice, modifier, rolls, again, notDice>>

\* lines 126-130: the roll pushed for a drawn value
PushRoll_never_bonus(rs, next_val, is_first) == Append(rs, Roll(next_val, FALSE))

PushRoll(rs, next_val, is_first) == Append(rs, Roll(next_val, ~is_first))

\* lines 124-135: one pass of the inner `loop`: draw, push, break unless the
\* value re-rolls; a break ends one iteration of the outer `for`
RollStep_keeps_first ==
    /\ pc = "loop"
    /\ Len(rolls) < MaxRolls
    /\ \E next_val \in between :
        /\ rolls' = PushRoll(rolls, next_val, first)
        /\ again' = roll_again(next_val, modifier)
        /\ IF ~roll_again(next_val, modifier)
           THEN /\ remaining' = remaining - 1
                /\ first' = first
                /\ pc' = IF remaining = 1 THEN "done" ELSE "loop"
           ELSE /\ first' = FALSE
                /\ UNCHANGED <<remaining, pc>>
    /\ UNCHANGED <<dice, modifier, notDice>>

RollStep ==
    /\ pc = "loop"
    /\ Len(rolls) < MaxRolls
    /\ \E next_val \in between :
        /\ rolls' = PushRoll(rolls, next_val, first)
        /\ again' = roll_again(next_val, modifier)
        /\ IF ~roll_again(next_val, modifier)
           THEN /\ remaining' = remaining - 1
                /\ first' = TRUE
                /\ pc' = IF remaining = 1 THEN "done" ELSE "loop"
           ELSE /\ first' = FALSE
                /\ UNCHANGED <<remaining, pc>>
    /\ UNCHANGED <<dice, modifier, notDice>>

DiceNext == RollChance \/ RollParse \/ RollStep

-----------------------------------------------------------------------------
(* Character *)

\* HashMap::new()
EmptyMap == [k \in {} |-> 0]

\* HashMap::insert
MapInsert(map, k, v) == [x \in DOMAIN map \cup {k} |-> IF x = k THEN v ELSE map[x]]

\* Health::new
Health_new == [max |-> 0, bashing |-> 0, lethal |-> 0, aggravated |-> 0]

\* Character::new
Character_new(name) == [name |-> name, stats |-> EmptyMap, health |-> Health_new]

\* Character::get_value: (found, value), the key looked up lower-cased
get_value_exact_key(c, key) ==
    IF key \in DOMAIN c.stats THEN <<TRUE, c.stats[key]>> ELSE <<FALSE, 0>>

get_value(c, key) ==
    LET k == to_lowercase(key)
    IN  IF k \in DOMAIN c.stats THEN <<TRUE, c.stats[k]>> ELSE <<FALSE, 0>>

\* Character::set_value: the value stored under the lower-cased key
set_value(c, key, value) ==
    [c EXCEPT !.stats = MapInsert(@, to_lowercase(key), value)]

\* the keys and values handed to set_value and get_value
CharKeys == {<<"a">>, <<"A">>, <<"A", "b">>, <<"a", "B">>}

CharValues == {0, 5}

NoCall == [key |-> <<>>, result |-> <<FALSE, 0>>, after |-> -1]

CharIdle == calls = <<>> /\ got = NoCall

CharInit ==
    /\ pc = "character"
    /\ character = Character_new(<<"P", "a", "u", "l">>)
    /\ calls = <<>>
    /\ got = NoCall
    /\ line = <<>> /\ modifier_token = <<>> /\ parts = <<>> /\ idx = 0
    /\ pool = 0 /\ multiplier = 1 /\ attributes = EmptyMap
    /\ attribs_not_found = <<>>

\* a call of Character::set_value
SetValue ==
    /\ pc = "character"
    /\ Len(calls) < MaxCalls
    /\ \E key \in CharKeys, value \in CharValues :
        /\ character' = set_value(character, key, value)
        /\ calls' = Append(calls, <<key, value>>)
    /\ UNCHANGED <<pc, got, diceVars, modVars, summary, line, modifier_token,
                   parts, idx, pool, multiplier, attributes, attribs_not_found,
                   sysVars>>

\* a call of Character::get_value
GetValue ==
    /\ pc = "character"
    /\ \E key \in CharKeys :
        got' = [key |-> key, result |-> get_value(character, key), after |-> Len(calls)]
    /\ UNCHANGED <<pc, calls, diceVars, modVars, summary, attribVars, sysVars>>

CharNext == SetValue \/ GetValue

-----------------------------------------------------------------------------
(* roll_attribs *)

T_again == <<"a", "g", "a", "i", "n">>
T_strength == <<"s", "t", "r", "e", "n", "g", "t", "h">>
T_athletics == <<"a", "t", "h", "l", "e", "t", "i", "c", "s">>

\* REGEX_NUMERIC, ^\d+$
REGEX_NUMERIC(t) == AllDigits(t)

\* REGEX_AGAIN, ^(?:no)?\d+again$
REGEX_AGAIN(t) ==
    LET body == IF StartsAt(t, <<"n", "o">>, 0) THEN SubSeq(t, 3, Len(t)) ELSE t
        n == Len(body) - Len(T_again)
    IN  /\ n >= 1
        /\ SubSeq(body, n + 1, Len(body)) = T_again
        /\ AllDigits(SubSeq(body, 1, n))

\* lines 152-155: the tokens of the line that match REGEX_AGAIN
again_parts(t) == SelectSeq(split_whitespace(t), REGEX_AGAIN)

\* line 159, first component: the line without the re-roll word
RemoveAgain(t, word) == Replace(t, word, <<>>)

\* line 161: spaces put around every "+" and "-"
Normalise(t) ==
    Replace(Replace(t, <<"+">>, <<" ", "+", " ">>), <<"-">>, <<" ", "-", " ">>)

\* the characters handed to roll_attribs: one without stats, one with
\* strength = 3 and athletics = 1
AttribCharacters ==
    {Character_new(<<>>),
     set_value(set_value(Character_new(<<>>), T_strength, 3), T_athletics, 1)}

\* the tokens generated lines are made of
AttribTokens ==
    {<<"-">>, <<"+">>, <<"1">>, T_strength, T_9again,
     <<"n", "o">> \o T_9again, <<"x">> \o T_9again}

\* the tokens of `ts` joined with `sep` between neighbours
RECURSIVE Join(_, _)
Join(ts, sep) ==
    IF ts = <<>> THEN <<>>
    ELSE IF Len(ts) = 1 THEN ts[1]
    ELSE ts[1] \o sep \o Join(Tail(ts), sep)

\* lines written out in full: the expression of test_roll_attribs, its plain
\* form, an attribute in capitals, and no10again beside 10again
AttribFixedLines ==
    {<<" ", " ">> \o T_strength \o <<" ", "+", " ", " ">> \o T_athletics
        \o <<"-", " ", "1", " ">> \o T_9again,
     T_strength \o <<" ", "+", " ">> \o T_athletics \o <<" ", "-", " ", "1">>,
     <<"S", "t", "r", "e", "n", "g", "t", "h", "\t", "-", "1">>,
     T_no10again \o <<" ">> \o T_10again \o <<" ", "1">>}

AttribLines ==
    {Join(ts, sep) : ts \in SeqsUpTo(AttribTokens, MaxAttribTokens),
                     sep \in {<<" ">>, <<>>}}
        \cup AttribFixedLines

AttribIdle ==
    /\ character = Character_new(<<>>)
    /\ line = <<>>
    /\ modifier_token = <<>>
    /\ parts = <<>>
    /\ idx = 0
    /\ pool = 0
    /\ multiplier = 1
    /\ attributes = EmptyMap
    /\ attribs_not_found = <<>>

AttribInit ==
    /\ pc = "attribs"
    /\ character \in AttribCharacters
    /\ line \in AttribLines
    /\ modifier_token = <<>>
    /\ parts = <<>>
    /\ idx = 0
    /\ pool = 0
    /\ multiplier = 1
    /\ attributes = EmptyMap
    /\ attribs_not_found = <<>>

\* lines 150-165: take the first re-roll word out of the line, normalise the
\* operators and split the result into the tokens the loop walks
AttribsScan ==
    /\ pc = "attribs"
    /\ LET found == again_parts(line)
           line2 == IF found = <<>> THEN line ELSE RemoveAgain(line, found[1])
       IN  /\ modifier_token' = IF found = <<>> THEN T_10again ELSE found[1]
           /\ parts' = split_whitespace(Normalise(line2))
    /\ idx' = 1
    /\ pool' = 0
    /\ multiplier' = 1
    /\ attributes' = EmptyMap
    /\ attribs_not_found' = <<>>
    /\ pc' = "walk"
    /\ UNCHANGED <<character, line, diceVars, modVars, summary, charVars, sysVars>>

\* line 182: the multiplier after a token other than "-"
MultiplierAfter(part, m) == 1

\* lines 174-180: an attribute name, found or not
NotFoundAfter_nothing(nf, part, found) == nf

NotFoundAfter(nf, part, found) == IF ~found THEN Append(nf, part) ELSE nf

\* lines 165-183: one token of the loop.  A numeric token is read with
\* parse::<i64>().unwrap(); the panic on a literal beyond i64 (19 digits or
\* more) or on a non-ASCII digit lies outside the lines drawn here.
AttribsPart ==
    /\ pc = "walk"
    /\ idx <= Len(parts)
    /\ LET part == parts[idx]
       IN  IF part = <<"-">>
           THEN /\ multiplier' = -1
                /\ UNCHANGED <<pool, attributes, attribs_not_found>>
           ELSE /\ IF REGEX_NUMERIC(part)
                   THEN /\ pool' = pool + DigitsValue(part) * multiplier
                        /\ UNCHANGED <<attributes, attribs_not_found>>
                   ELSE IF part # <<"+">>
                   THEN LET r == get_value(character, part)
                        IN  /\ attribs_not_found' = NotFoundAfter(attribs_not_found, part, r[1])
                            /\ attributes' = IF r[1] THEN MapInsert(attributes, part, r[2])
                                                     ELSE attributes
                            /\ pool' = pool + r[2] * multiplier
                   ELSE UNCHANGED <<pool, attributes, attribs_not_found>>
                /\ multiplier' = MultiplierAfter(part, multiplier)
    /\ idx' = idx + 1
    /\ UNCHANGED <<pc, character, line, modifier_token, parts, diceVars, modVars, summary,
                   charVars, sysVars>>

\* lines 184-189: the result, its modifier resolved from the re-roll word
AttribsReturn ==
    /\ pc = "walk"
    /\ idx > Len(parts)
    /\ modifier' = mod_for_str(modifier_token)
    /\ pc' = "done"
    /\ UNCHANGED <<dice, rolls, first, remaining, again, modVars, summary, attribVars,
                   charVars, sysVars>>

AttribNext == AttribsScan \/ AttribsPart \/ AttribsReturn

-----------------------------------------------------------------------------
(* count_successes *)

T_success == <<"s", "u", "c", "c", "e", "s", "s">>
T_successes == T_success \o <<"e", "s">>

count_successes_plural_one(rs) ==
    LET count == Len(SelectSeq(rs, LAMBDA e : e.val > 7))
        text == IF count > 1 THEN T_successes ELSE T_success
    IN  NatToString(count) \o <<" ">> \o text \o <<":", " ">>

count_successes(rs) ==
    LET count == Len(SelectSeq(rs, LAMBDA e : e.val > 7))
        text == IF count # 1 THEN T_successes ELSE T_success
    IN  NatToString(count) \o <<" ">> \o text \o <<":", " ">>

AllRolls == {Roll(v, b) : v \in between, b \in BOOLEAN}

\* the slices handed to count_successes: every short slice, and the longer
\* slices of 7s and 8s (the two sides of the success threshold)
CountInputs ==
    SeqsUpTo(AllRolls, MaxCountLen)
        \cup SeqsUpTo({Roll(7, FALSE), Roll(8, FALSE)}, MaxLongLen)

CountIdle == summary = <<>>

CountInit ==
    /\ pc = "count"
    /\ rolls \in CountInputs
    /\ dice = <<>> /\ modifier = "Again10" /\ first = TRUE
    /\ remaining = 0 /\ again = FALSE
    /\ summary = <<>>

CountSuccesses ==
    /\ pc = "count"
    /\ summary' = count_successes(rolls)
    /\ pc' = "done"
    /\ UNCHANGED <<dice, modifier, rolls, first, remaining, again, modVars, attribVars,
                   charVars, sysVars>>

-----------------------------------------------------------------------------
(* CharacterStore::get and get_mut *)

\* position of the first character named exactly `name`, 0 when there is none
PositionOf(st, name) ==
    IF \E i \in 1..Len(st) : st[i].name = name
    THEN CHOOSE i \in 1..Len(st) :
            st[i].name = name /\ \A j \in 1..(i - 1) : st[j].name # name
    ELSE 0

None == [some |-> FALSE]

Some(v) == [some |-> TRUE, val |-> v]

\* CharacterStore::get: the first character of that name, or None
Store_get(st, name) ==
    IF PositionOf(st, name) = 0 THEN None ELSE Some(st[PositionOf(st, name)])

\* CharacterStore::get_mut: the store afterwards and the index of the
\* character returned, pushed new when no character has that name
Store_get_mut_ignoring_case(st, name) ==
    LET hits == {i \in 1..Len(st) : to_lowercase(st[i].name) = to_lowercase(name)}
    IN  IF hits # {}
        THEN [characters |-> st, index |-> CHOOSE i \in hits : \A j \in hits : i <= j]
        ELSE [characters |-> Append(st, Character_new(name)), index |-> Len(st) + 1]

Store_get_mut(st, name) ==
    IF PositionOf(st, name) # 0
    THEN [characters |-> st, index |-> PositionOf(st, name)]
    ELSE [characters |-> Append(st, Character_new(name)), index |-> Len(st) + 1]

\* the names and stats used on the store
T_Al == <<"A", "l">>
T_al == <<"a", "l">>
T_Bo == <<"B", "o">>

StoreNames == {T_Al, T_al, T_Bo}

StoreKeys == {<<"a">>}

StoreValues == {1, 2}

NoStoreCall == [op |-> "none", name |-> <<>>]

StoreIdle ==
    /\ store = <<>>
    /\ handle = 0
    /\ fetched = None
    /\ call = NoStoreCall

\* CharacterStore { characters: vec![] }
StoreInit == pc = "store" /\ StoreIdle

notStore ==
    <<pc, diceVars, modVars, summary, attribVars, charVars, fileVars, cmdVars, rollVars>>

\* a call of get; the borrow of an earlier get_mut has ended
StoreGet ==
    /\ pc = "store"
    /\ \E name \in StoreNames :
        /\ fetched' = Store_get(store, name)
        /\ call' = [op |-> "get", name |-> name]
    /\ handle' = 0
    /\ UNCHANGED <<store, notStore>>

\* a call of get_mut
StoreGetMut ==
    /\ pc = "store"
    /\ \E name \in StoreNames :
        LET r == Store_get_mut(store, name)
        IN  /\ store' = r.characters
            /\ handle' = r.index
            /\ call' = [op |-> "get_mut", name |-> name]
    /\ UNCHANGED <<fetched, notStore>>

\* set_value through the reference get_mut returned
StoreSetValue ==
    /\ pc = "store"
    /\ handle # 0
    /\ \E key \in StoreKeys, value \in StoreValues :
        store' = [store EXCEPT ![handle] = set_value(@, key, value)]
    /\ call' = [op |-> "set_value", name |-> store[handle].name]
    /\ UNCHANGED <<handle, fetched, notStore>>

StoreNext == StoreGet \/ StoreGetMut \/ StoreSetValue

-----------------------------------------------------------------------------
(* serde_json::to_string of a CharacterStore *)

QUOTE == "\""
BACKSLASH == "\\"

K_characters == <<"c", "h", "a", "r", "a", "c", "t", "e", "r", "s">>
K_name == <<"n", "a", "m", "e">>
K_stats == <<"s", "t", "a", "t", "s">>
K_health == <<"h", "e", "a", "l", "t", "h">>
K_max == <<"m", "a", "x">>
K_bashing == <<"b", "a", "s", "h", "i", "n", "g">>
K_lethal == <<"l", "e", "t", "h", "a", "l">>
K_aggravated == <<"a", "g", "g", "r", "a", "v", "a", "t", "e", "d">>

\* a string writer that escapes nothing
EscapeChar_raw(c) == <<c>>

\* one character of a JSON string: quote, backslash, newline and tab escaped
EscapeChar(c) ==
    IF c = QUOTE THEN <<BACKSLASH, QUOTE>>
    ELSE IF c = BACKSLASH THEN <<BACKSLASH, BACKSLASH>>
    ELSE IF c = "\n" THEN <<BACKSLASH, "n">>
    ELSE IF c = "\t" THEN <<BACKSLASH, "t">>
    ELSE <<c>>

\* a text as a JSON string
JsonString(t) ==
    <<QUOTE>> \o Concat([k \in 1..Len(t) |-> EscapeChar(t[k])]) \o <<QUOTE>>

\* "key":
JsonKey(k) == JsonString(k) \o <<":">>

\* the members of a list, with commas between them
JsonList(ts) == Join(ts, <<",">>)

\* a HashMap<String, i64>, its entries in the order `ord` the map iterates in
JsonStats(stats, ord) ==
    <<"{">>
      \o JsonList([k \in 1..Len(ord) |->
                     JsonKey(ord[k]) \o I64ToString(stats[ord[k]])])
      \o <<"}">>

\* a Health, its fields in declaration order
JsonHealth(h) ==
    <<"{">>
      \o JsonKey(K_max) \o NatToString(h.max) \o <<",">>
      \o JsonKey(K_bashing) \o NatToString(h.bashing) \o <<",">>
      \o JsonKey(K_lethal) \o NatToString(h.lethal) \o <<",">>
      \o JsonKey(K_aggravated) \o NatToString(h.aggravated)
      \o <<"}">>

\* a Character, its fields in declaration order
JsonCharacter(c, ord) ==
    <<"{">>
      \o JsonKey(K_name) \o JsonString(c.name) \o <<",">>
      \o JsonKey(K_stats) \o JsonStats(c.stats, ord) \o <<",">>
      \o JsonKey(K_health) \o JsonHealth(c.health)
      \o <<"}">>

\* serde_json::to_string(&store); ords[i] is the iteration order of the
\* stats of the i-th character
to_string(st, ords) ==
    <<"{">>
      \o JsonKey(K_characters) \o <<"[">>
      \o JsonList([i \in 1..Len(st) |-> JsonCharacter(st[i], ords[i])])
      \o <<"]", "}">>

\* the orders a set of keys can be iterated in
Orders(S) ==
    {ord \in [1..Cardinality(S) -> S] : \A i, j \in 1..Cardinality(S) : ord[i] = ord[j] => i = j}

\* the iteration orders of the stats of every character of a store
StoreOrders(st) ==
    {ords \in [1..Len(st) -> UNION {Orders(DOMAIN st[i].stats) : i \in 1..Len(st)}] :
        \A i \in 1..Len(st) : ords[i] \in Orders(DOMAIN st[i].stats)}

-----------------------------------------------------------------------------
(* serde_json::from_str::<CharacterStore> *)

\* a parse that failed, and one that gave `v` and stopped before position `next`
Fail == [ok |-> FALSE]
Parsed(v, next) == [ok |-> TRUE, val |-> v, next |-> next]

\* the character at position i, "" past the end
At(t, i) == IF i >= 1 /\ i <= Len(t) THEN t[i] ELSE ""

JsonWhitespace == {" ", "\t", "\n", "\r"}

\* the first position at or after i that holds no whitespace
RECURSIVE SkipWs(_, _)
SkipWs(t, i) == IF At(t, i) \in JsonWhitespace THEN SkipWs(t, i + 1) ELSE i

\* the first position at or after i that holds no digit
RECURSIVE DigitsEnd(_, _)
DigitsEnd(t, i) == IF IsDigit(At(t, i)) THEN DigitsEnd(t, i + 1) ELSE i

\* the inside of a string, from position i up to its closing quote
\* (the escapes \b, \f and \u are outside the inputs of this model)
\* the byte 0, which fills the gap when a write lands behind the end of a
\* file; like every control character it may not stand in a JSON text
NUL == "NUL"

RECURSIVE StringBody(_, _, _)
StringBody(t, i, acc) ==
    LET c == At(t, i)
        e == At(t, i + 1)
    IN  IF c = "" \/ c \in {"\n", "\t", "\r", NUL} THEN Fail
        ELSE IF c = QUOTE THEN Parsed(acc, i + 1)
        ELSE IF c = BACKSLASH
        THEN IF e \in {QUOTE, BACKSLASH, "/"} THEN StringBody(t, i + 2, Append(acc, e))
             ELSE IF e = "n" THEN StringBody(t, i + 2, Append(acc, "\n"))
             ELSE IF e = "t" THEN StringBody(t, i + 2, Append(acc, "\t"))
             ELSE IF e = "r" THEN StringBody(t, i + 2, Append(acc, "\r"))
             ELSE Fail
        ELSE StringBody(t, i + 1, Append(acc, c))

ParseString(t, i) == IF At(t, i) = QUOTE THEN StringBody(t, i + 1, <<>>) ELSE Fail

\* an integer: no leading zero, no fraction or exponent; -0 reads as a float
\* and a negative number is no u64
ParseInteger(t, i, signed) ==
    LET neg == At(t, i) = "-"
        from == IF neg THEN i + 1 ELSE i
        to == DigitsEnd(t, from)
        n == DigitsValue(SubSeq(t, from, to - 1))
    IN  IF to = from THEN Fail
        ELSE IF At(t, from) = "0" /\ to > from + 1 THEN Fail
        ELSE IF At(t, to) \in {".", "e", "E"} THEN Fail
        ELSE IF neg /\ (~signed \/ n = 0) THEN Fail
        ELSE Parsed(IF neg THEN -n ELSE n, to)

\* a number whose value is ignored: fraction and exponent allowed
SkipNumber(t, i) ==
    LET from == IF At(t, i) = "-" THEN i + 1 ELSE i
        to == DigitsEnd(t, from)
        frac == IF At(t, to) = "." THEN DigitsEnd(t, to + 1) ELSE to
        sign == IF At(t, frac + 1) \in {"+", "-"} THEN frac + 2 ELSE frac + 1
        exp == IF At(t, frac) \in {"e", "E"} THEN DigitsEnd(t, sign) ELSE frac
    IN  IF to = from THEN Fail
        ELSE IF At(t, from) = "0" /\ to > from + 1 THEN Fail
        ELSE IF At(t, to) = "." /\ frac = to + 1 THEN Fail
        ELSE IF At(t, frac) \in {"e", "E"} /\ exp = sign THEN Fail
        ELSE Parsed(0, exp)

\* true, false or null, ignored
SkipLiteral(t, i) ==
    IF StartsAt(t, <<"t", "r", "u", "e">>, i - 1) THEN Parsed(0, i + 4)
    ELSE IF StartsAt(t, <<"f", "a", "l", "s", "e">>, i - 1) THEN Parsed(0, i + 5)
    ELSE IF StartsAt(t, <<"n", "u", "l", "l">>, i - 1) THEN Parsed(0, i + 4)
    ELSE Fail

\* the fields of each struct, in declaration order
StructFields(kind) ==
    IF kind = "store" THEN <<K_characters>>
    ELSE IF kind = "character" THEN <<K_name, K_stats, K_health>>
    ELSE IF kind = "health" THEN <<K_max, K_bashing, K_lethal, K_aggravated>>
    ELSE <<>>

IsStruct(kind) == kind \in {"store", "character", "health"}

\* what the member `key` of an object of kind `kind` is read as:
\* unknown fields of a struct, and everything below them, are ignored
FieldKind(kind, key) ==
    IF kind = "store" /\ key = K_characters THEN "characters"
    ELSE IF kind = "character" /\ key = K_name THEN "string"
    ELSE IF kind = "character" /\ key = K_stats THEN "stats"
    ELSE IF kind = "character" /\ key = K_health THEN "health"
    ELSE IF kind = "health" /\ key \in {K_max, K_bashing, K_lethal, K_aggravated} THEN "u64"
    ELSE IF kind = "stats" THEN "i64"
    ELSE "ignored"

\* what the elements of an array of kind `kind` are read as
ElementKind(kind) == IF kind = "characters" THEN "character" ELSE "ignored"

\* the value of a struct from its members; a missing field is an error
Build(kind, members) ==
    IF \E k \in 1..Len(StructFields(kind)) : StructFields(kind)[k] \notin DOMAIN members
    THEN Fail
    ELSE IF kind = "store" THEN Parsed(members[K_characters], 0)
    ELSE IF kind = "character"
    THEN Parsed([name |-> members[K_name], stats |-> members[K_stats],
                 health |-> members[K_health]], 0)
    ELSE IF kind = "health"
    THEN Parsed([max |-> members[K_max], bashing |-> members[K_bashing],
                 lethal |-> members[K_lethal], aggravated |-> members[K_aggravated]], 0)
    ELSE Parsed(members, 0)

RECURSIVE ParseValue(_, _, _)
RECURSIVE ParseMembers(_, _, _, _, _)
RECURSIVE ParseElements(_, _, _, _, _)
RECURSIVE ParseTuple(_, _, _, _, _)

\* the members of an object from position i, up to and including its "}";
\* a struct refuses a field given twice, a map keeps the later value
ParseMembers(kind, t, i, acc, may_close) ==
    LET j == SkipWs(t, i)
        key == ParseString(t, j)
        colon == SkipWs(t, key.next)
        fk == FieldKind(kind, key.val)
        v == ParseValue(fk, t, SkipWs(t, colon + 1))
        after == SkipWs(t, v.next)
        acc2 == IF fk = "ignored" THEN acc ELSE MapInsert(acc, key.val, v.val)
    IN  IF At(t, j) = "}" /\ may_close THEN Parsed(acc, j + 1)
        ELSE IF ~key.ok THEN Fail
        ELSE IF At(t, colon) # ":" THEN Fail
        ELSE IF IsStruct(kind) /\ fk # "ignored" /\ key.val \in DOMAIN acc THEN Fail
        ELSE IF ~v.ok THEN Fail
        ELSE IF At(t, after) = "," THEN ParseMembers(kind, t, after + 1, acc2, FALSE)
        ELSE IF At(t, after) = "}" THEN Parsed(acc2, after + 1)
        ELSE Fail

\* the elements of an array from position i, up to and including its "]"
ParseElements(kind, t, i, acc, may_close) ==
    LET j == SkipWs(t, i)
        v == ParseValue(kind, t, j)
        after == SkipWs(t, v.next)
        acc2 == IF kind = "ignored" THEN acc ELSE Append(acc, v.val)
    IN  IF At(t, j) = "]" /\ may_close THEN Parsed(acc, j + 1)
        ELSE IF ~v.ok THEN Fail
        ELSE IF At(t, after) = "," THEN ParseElements(kind, t, after + 1, acc2, FALSE)
        ELSE IF At(t, after) = "]" THEN Parsed(acc2, after + 1)
        ELSE Fail

\* a struct written as an array of its fields in declaration order, from
\* the k-th field at position i, up to and including its "]"
ParseTuple(kind, t, i, acc, k) ==
    LET fields == StructFields(kind)
        j == SkipWs(t, i)
        v == ParseValue(FieldKind(kind, fields[k]), t, j)
        after == SkipWs(t, v.next)
        acc2 == MapInsert(acc, fields[k], v.val)
    IN  IF ~v.ok THEN Fail
        ELSE IF k < Len(fields)
        THEN IF At(t, after) = "," THEN ParseTuple(kind, t, after + 1, acc2, k + 1)
             ELSE Fail
        ELSE IF At(t, after) = "]" THEN Parsed(acc2, after + 1)
        ELSE Fail

\* the value of kind `kind` that starts at position i
ParseValue(kind, t, i) ==
    LET c == At(t, i)
        obj == ParseMembers(kind, t, i + 1, EmptyMap, TRUE)
        tup == ParseTuple(kind, t, i + 1, EmptyMap, 1)
        built == Build(kind, IF c = "{" THEN obj.val ELSE tup.val)
    IN  IF kind = "string" THEN ParseString(t, i)
        ELSE IF kind = "i64" THEN ParseInteger(t, i, TRUE)
        ELSE IF kind = "u64" THEN ParseInteger(t, i, FALSE)
        ELSE IF kind = "characters"
        THEN IF c = "[" THEN ParseElements(ElementKind(kind), t, i + 1, <<>>, TRUE) ELSE Fail
        ELSE IF kind = "stats"
        THEN IF c = "{" THEN obj ELSE Fail
        ELSE IF IsStruct(kind)
        THEN IF c = "{"
             THEN IF obj.ok /\ built.ok THEN Parsed(built.val, obj.next) ELSE Fail
             ELSE IF c = "["
             THEN IF tup.ok /\ built.ok THEN Parsed(built.val, tup.next) ELSE Fail
             ELSE Fail
        ELSE IF c = QUOTE THEN ParseString(t, i)
        ELSE IF c = "{" THEN ParseMembers("ignored", t, i + 1, EmptyMap, TRUE)
        ELSE IF c = "[" THEN ParseElements("ignored", t, i + 1, <<>>, TRUE)
        ELSE IF c = "-" \/ IsDigit(c) THEN SkipNumber(t, i)
        ELSE SkipLiteral(t, i)

\* serde_json::from_str: one value, then nothing but whitespace
from_str(t) ==
    LET r == ParseValue("store", t, SkipWs(t, 1))
    IN  IF r.ok /\ SkipWs(t, r.next) > Len(t)
        THEN [ok |-> TRUE, store |-> r.val]
        ELSE [ok |-> FALSE]

-----------------------------------------------------------------------------
(* CharacterStore::from_file and CharacterStore::save *)

\* the threads of the bot that handle commands
Workers == {1, 2}

\* the file at LOAD_PATH: no file; a file of text the bot can read; a file
\* the bot may not read, which it may still write; a file the bot can read
\* whose bytes are no UTF-8.  `text` is what the file holds
Missing == [state |-> "missing", text |-> <<>>]
Unreadable == [state |-> "unreadable", text |-> <<>>]
NotUtf8 == [state |-> "binary", text |-> <<>>]
FileText(t) == [state |-> "text", text |-> t]

\* File::create inside fs::write, once it succeeded: a missing file is
\* created, and the mode it is created with lets the bot read it or not; an
\* existing file is cut to length 0 and keeps its mode
Created(f) ==
    IF f.state = "missing" THEN {FileText(<<>>), Unreadable}
    ELSE IF f.state = "binary" THEN {FileText(<<>>)}
    ELSE {[f EXCEPT !.text = <<>>]}

\* write(2) of `bytes` at offset `off` of a file holding `old`: a gap before
\* the offset is filled with NUL, what lies behind the bytes stays
WriteAt(old, off, bytes) ==
    LET padded == IF Len(old) < off
                  THEN old \o [k \in 1..(off - Len(old)) |-> NUL]
                  ELSE old
    IN  SubSeq(padded, 1, off) \o bytes
          \o SubSeq(padded, off + Len(bytes) + 1, Len(padded))

\* the numbers of bytes one write call of write_all can transfer when `rest`
\* is left and `partial` calls have transferred a part: all of it, or a part
WriteCounts(rest, partial) ==
    IF partial < MaxShortWrites THEN 1..Len(rest) ELSE {Len(rest)}

\* fs::write(&path, &output) on thread p, up to the return of File::create
Create(p, text) ==
    /\ file' \in Created(file)
    /\ output' = [output EXCEPT ![p] = text]
    /\ wrote' = [wrote EXCEPT ![p] = 0]
    /\ UNCHANGED shorts

\* one write call of write_all on thread p that transfers n bytes, at the
\* offset the descriptor has reached
WriteCall(p, n) ==
    /\ file' = [file EXCEPT !.text =
                   WriteAt(@, wrote[p], SubSeq(output[p], wrote[p] + 1, wrote[p] + n))]
    /\ wrote' = [wrote EXCEPT ![p] = @ + n]
    /\ shorts' = IF wrote[p] + n < Len(output[p]) THEN shorts + 1 ELSE shorts
    /\ UNCHANGED output

\* r#"{"characters":[]}"#
EMPTY_STORE_JSON == <<"{">> \o JsonKey(K_characters) \o <<"[", "]", "}">>

\* from_file with `?` replaced by a fall-back to the empty store
from_file_fail_open(f) ==
    LET read == IF f.state = "text" THEN f.text ELSE EMPTY_STORE_JSON
    IN  IF from_str(read).ok THEN from_str(read) ELSE from_str(EMPTY_STORE_JSON)

\* CharacterStore::from_file: a failed read stands for the empty store,
\* a failed parse is returned
from_file(f) ==
    LET read == IF f.state = "text" THEN f.text ELSE EMPTY_STORE_JSON
    IN  from_str(read)

\* the characters of the stores given to save
FileCharacters ==
    { Character_new(<<"A">>),
      set_value(Character_new(<<"A">>), <<"a">>, 100),
      set_value(set_value(Character_new(<<"b", QUOTE>>), <<"a">>, -1), <<"b">>, 0),
      set_value(Character_new(<<BACKSLASH>>), <<QUOTE>>, 7),
      [Character_new(<<>>) EXCEPT !.health = [max |-> 7, bashing |-> 1, lethal |-> 2, aggravated |-> 3]],
      set_value(Character_new(<<"A", "\n", "b">>), <<"a", " ", "b">>, 12) }

FileStores == SeqsUpTo(FileCharacters, MaxStoreLen)

\* the JSON the test of save expects: a character without `health`
T_no_health ==
    <<"{">> \o JsonKey(K_characters) \o <<"[", "{">>
      \o JsonKey(K_name) \o JsonString(<<"A">>) \o <<",">>
      \o JsonKey(K_stats) \o <<"{">> \o JsonKey(<<"a">>) \o <<"1", "0", "0", "}", "}", "]", "}">>

\* texts that are no CharacterStore
UnparseableTexts ==
    { <<>>,
      <<"x">>,
      <<"{">> \o JsonKey(K_characters),
      EMPTY_STORE_JSON \o <<" ", "x">>,
      T_no_health }

\* texts written by hand that are a CharacterStore
HandWrittenTexts ==
    { <<" ", "{", " ">> \o JsonKey(K_characters) \o <<" ", "[", " ", "]", " ", "}", "\n">>,
      <<"{">> \o JsonKey(<<"v">>) \o <<"[", "1", ".", "5", ",", "n", "u", "l", "l", "]", ",">>
        \o JsonKey(K_characters) \o <<"[", "[">> \o JsonString(<<"A">>)
        \o <<",", "{", "}", ",", "[", "0", ",", "0", ",", "0", ",", "0", "]", "]", "]", "}">> }

FileInputs ==
    {Missing, Unreadable, NotUtf8}
      \cup {FileText(t) : t \in UnparseableTexts \cup HandWrittenTexts}

\* no fs::write is under way
NoWrite ==
    /\ output = [p \in Workers |-> <<>>]
    /\ wrote = [p \in Workers |-> 0]
    /\ shorts = 0

FileIdle ==
    /\ file = Missing /\ saving = None /\ written = "none" /\ loaded = None
    /\ NoWrite

FileInit ==
    /\ pc = "file"
    /\ file \in FileInputs
    /\ saving = None
    /\ written = "none"
    /\ loaded = None
    /\ NoWrite

notFile == <<diceVars, modVars, summary, attribVars, charVars, storeVars, cmdVars, rollVars>>

\* save, up to the opening of the file: to_string, then File::create of
\* fs::write, which fails and leaves the file as it was, or succeeds
FileSave ==
    /\ pc = "file"
    /\ \E st \in FileStores : \E ords \in StoreOrders(st) :
         /\ saving' = Some(st)
         /\ \/ /\ written' = "err"
               /\ pc' = "saved"
               /\ UNCHANGED <<file, output, wrote, shorts>>
            \/ /\ Create(1, to_string(st, ords))
               /\ pc' = "write"
               /\ UNCHANGED written
    /\ UNCHANGED <<loaded, notFile>>

\* save, one write call of the write_all of fs::write: it fails, and save
\* returns the error with the file left as far as it was written, or it
\* transfers bytes; save returns Ok(()) when all are written
FileSaveWrite ==
    /\ pc = "write"
    /\ \/ /\ written' = "err"
          /\ pc' = "saved"
          /\ UNCHANGED <<file, output, wrote, shorts>>
       \/ \E n \in WriteCounts(SubSeq(output[1], wrote[1] + 1, Len(output[1])), shorts) :
            /\ WriteCall(1, n)
            /\ IF wrote[1] + n = Len(output[1])
               THEN written' = "ok" /\ pc' = "saved"
               ELSE UNCHANGED <<written, pc>>
    /\ UNCHANGED <<saving, loaded, notFile>>

\* from_file, from its open to its return: nothing writes the file
\* meanwhile, so its reads together give what the file holds
FileLoad ==
    /\ pc \in {"file", "saved"}
    /\ loaded' = from_file(file)
    /\ pc' = "loaded"
    /\ UNCHANGED <<file, saving, written, output, wrote, shorts, notFile>>

\* the `.unwrap()` every command puts on from_file
FileUnwrap ==
    /\ pc = "loaded"
    /\ pc' = IF loaded.ok THEN "ready" ELSE "panic"
    /\ UNCHANGED <<fileVars, notFile>>

FileNext == FileSave \/ FileSaveWrite \/ FileLoad \/ FileUnwrap

-----------------------------------------------------------------------------
(* the commands `stats` and `character` *)

\* str::parse::<i64>: an optional sign, then digits (a literal beyond i64
\* needs 19 digits and lies outside the arguments drawn here)
ParseI64(t) ==
    LET signed == t # <<>> /\ t[1] \in {"+", "-"}
        body == IF signed THEN Tail(t) ELSE t
    IN  IF AllDigits(body)
        THEN [ok |-> TRUE,
              val |-> IF t[1] = "-" THEN -DigitsValue(body) ELSE DigitsValue(body)]
        ELSE [ok |-> FALSE, val |-> 0]

\* str::split(sep): the pieces between the separators, empty ones included
RECURSIVE SplitOnFrom(_, _, _, _)
SplitOnFrom(t, sep, i, cur) ==
    IF i > Len(t) THEN <<cur>>
    ELSE IF t[i] = sep THEN <<cur>> \o SplitOnFrom(t, sep, i + 1, <<>>)
    ELSE SplitOnFrom(t, sep, i + 1, Append(cur, t[i]))

SplitOn(t, sep) == SplitOnFrom(t, sep, 1, <<>>)

T_print == <<"p", "r", "i", "n", "t">>
T_show == <<"s", "h", "o", "w">>
T_edit == <<"e", "d", "i", "t">>
T_bulk == <<"b", "u", "l", "k">>

\* what the if-chain of a handler did: the branch, the character after it,
\* and the change counter
Ran(outcome, c, counter) == [outcome |-> outcome, chr |-> c, counter |-> counter]

\* the `edit` branch of either command: `args.len()` counts every argument,
\* the consumed "edit" included
Edit(c, args) ==
    IF Len(args) # 3 THEN Ran("usage", c, 0)
    ELSE IF ~ParseI64(args[3]).ok THEN Ran("not_number", c, 0)
    ELSE Ran("edit_ok", set_value(c, args[2], ParseI64(args[3]).val), 1)

\* stats.rs:50-68: the bulk loop from the k-th item on
RECURSIVE Bulk(_, _, _, _)
Bulk(c, items, k, counter) ==
    IF k > Len(items) THEN Ran("bulk_ok", c, counter)
    ELSE LET pieces == SplitOn(items[k], "=")
         IN  IF Len(pieces) # 2 THEN Ran("bulk_form", c, counter)
             ELSE IF ~ParseI64(pieces[2]).ok THEN Ran("bulk_number", c, counter)
             ELSE Bulk(set_value(c, pieces[1], ParseI64(pieces[2]).val),
                       items, k + 1, counter + 1)

\* stats.rs:21-75: the if-chain of `stats`
stats(c, args) ==
    IF args[1] \in {T_print, T_show} THEN Ran("print", c, 0)
    ELSE IF args[1] = T_edit THEN Edit(c, args)
    ELSE IF args[1] = T_bulk THEN Bulk(c, Tail(args), 1, 0)
    ELSE Ran("nothing", c, 0)

\* character.rs:21-46: the if-chain of `character`
character_cmd(c, args) ==
    IF args[1] = T_print THEN Ran("print", c, 0)
    ELSE IF args[1] = T_edit THEN Edit(c, args)
    ELSE Ran("nothing", c, 0)

\* the calls a handler makes after its if-chain, in order: an error line is
\* followed by `return`; `stats` saves inside the edit and bulk branches,
\* `character` saves after the chain whatever branch ran
Plan(cmd, ran) ==
    IF ran.outcome \in {"usage", "not_number", "bulk_form", "bulk_number"} THEN <<"say">>
    ELSE IF cmd = "stats"
    THEN IF ran.outcome = "print" THEN <<"say">>
         ELSE IF ran.outcome = "edit_ok" THEN <<"save", "say">>
         ELSE IF ran.outcome = "bulk_ok"
         THEN IF ran.counter > 0 THEN <<"save", "say">> ELSE <<"save">>
         ELSE <<>>
    ELSE IF ran.outcome = "print" THEN <<"say", "save">>
         ELSE IF ran.outcome = "edit_ok" THEN <<"react", "save">>
         ELSE <<"save">>

\* the line a handler sends for the branch it took, with the number it
\* carries (the back quotes around the first three lines are left out, the
\* code block and the reaction are named)
Line(cmd, outcome, counter) ==
    IF outcome = "usage"
    THEN IF cmd = "stats" THEN <<"!stats edit <stat_name> <stat_value>", 0>>
         ELSE <<"!character edit <stat_name> <stat_value>", 0>>
    ELSE IF outcome = "not_number" THEN <<"The <stat_value> argument must be a number", 0>>
    ELSE IF outcome = "bulk_form"
    THEN <<"Bulk-editing stats is done in the form: name1=value1 name2=value2 name3=value3 ...", 0>>
    ELSE IF outcome = "bulk_number"
    THEN <<"Bulk-editing stats values must be whole numbers, i.e. 1, 49, 0", 0>>
    ELSE IF outcome = "print" THEN <<"codeblock", 0>>
    ELSE IF outcome = "bulk_ok" THEN <<"Saved {} stats", counter>>
    ELSE IF cmd = "stats" THEN <<"Got it.", 0>>
    ELSE <<"thumbs up", 0>>

\* a save that puts the author's character into the store the file holds now
SavedStore_merging(m, h, f) ==
    LET now == Store_get_mut(from_file_fail_open(f).store, m[h].name)
    IN  [now.characters EXCEPT ![now.index] = m[h]]

\* what save serialises: `&self`, the whole store the handler loaded
SavedStore(m, h, f) == m

\* the key = value pairs an invocation asks to store, none when the handler
\* refuses it
EditsOf(inp) ==
    LET args == inp.args
        items == Tail(args)
    IN  IF args = <<>> THEN <<>>
        ELSE IF args[1] = T_edit
        THEN IF Len(args) = 3 /\ ParseI64(args[3]).ok
             THEN << <<args[2], ParseI64(args[3]).val>> >>
             ELSE <<>>
        ELSE IF inp.cmd = "stats" /\ args[1] = T_bulk
                 /\ \A k \in 1..Len(items) :
                       /\ Len(SplitOn(items[k], "=")) = 2
                       /\ ParseI64(SplitOn(items[k], "=")[2]).ok
        THEN [k \in 1..Len(items) |->
                <<SplitOn(items[k], "=")[1], ParseI64(SplitOn(items[k], "=")[2]).val>>]
        ELSE <<>>

\* the last value per author and lower-cased key, after `edits` by `user`
RECURSIVE Noted(_, _, _)
Noted(exp, user, edits) ==
    IF edits = <<>> THEN exp
    ELSE Noted(MapInsert(exp, <<user, to_lowercase(Head(edits)[1])>>, Head(edits)[2]),
               user, Tail(edits))


NoInput == [cmd |-> "none", user |-> <<>>, args |-> <<>>]

NoResult == [outcome |-> "none", counter |-> 0]

CmdInput(cmd, user, args) == [cmd |-> cmd, user |-> user, args |-> args]

T_str == <<"s", "t", "r">>
T_Str == <<"S", "t", "r">>
T_dex == <<"d", "e", "x">>

\* the argument lists of the invocations handled one after another
SeqStatsArgs ==
    { <<T_edit, T_str, <<"3">> >>,
      <<T_edit, T_Str, <<"-", "4">> >>,
      <<T_edit, T_str>>,
      <<T_edit, T_str, <<"x">> >>,
      <<T_bulk, T_str \o <<"=", "1">>, T_dex \o <<"=", "2">> >>,
      <<T_bulk, T_str \o <<"=", "1">>, T_dex \o <<"=", "x">> >>,
      <<T_bulk, T_str \o <<"=", "1">>, T_dex>>,
      <<T_show>>,
      <<>> }

SeqCharacterArgs ==
    { <<T_edit, T_dex, <<"5">> >>,
      <<T_edit, T_dex, <<"5">>, <<"6">> >>,
      <<T_edit, T_dex, <<"1", ".", "5">> >>,
      <<T_print>> }

SeqInputs ==
    {CmdInput("stats", u, a) : u \in {T_Al, T_Bo}, a \in SeqStatsArgs}
      \cup {CmdInput("character", u, a) : u \in {T_Al, T_Bo}, a \in SeqCharacterArgs}

\* the invocations of two workers at once: accepted edits
ConcInputs ==
    { CmdInput("stats", T_Al, <<T_edit, T_str, <<"3", "0">> >>),
      CmdInput("character", T_Bo, <<T_edit, T_dex, <<"5">> >>) }

CmdIdle ==
    /\ cpc = [p \in Workers |-> "idle"]
    /\ input = [p \in Workers |-> NoInput]
    /\ mem = [p \in Workers |-> <<>>]
    /\ hdl = [p \in Workers |-> 0]
    /\ plan = [p \in Workers |-> <<>>]
    /\ result = [p \in Workers |-> NoResult]
    /\ reply = [p \in Workers |-> <<>>]
    /\ before = [p \in Workers |-> Missing]
    /\ seen = [p \in Workers |-> Missing]
    /\ hint = [p \in Workers |-> 0]
    /\ cap = [p \in Workers |-> 0]
    /\ saved = [p \in Workers |-> FALSE]
    /\ started = 0
    /\ expected = EmptyMap

\* the bot is up, no command received yet, and the file is one of `files`
CmdStart(files) ==
    /\ pc = "cmd"
    /\ CmdIdle
    /\ file \in files
    /\ saving = None /\ written = "none" /\ loaded = None
    /\ NoWrite

\* the file is missing, may not be read, or was left behind without `health`
CmdInit == CmdStart({Missing, Unreadable, FileText(T_no_health)})

\* the file an earlier run of the bot saved: Al with str 1
T_saved ==
    LET st == <<set_value(Character_new(T_Al), T_str, 1)>>
    IN  to_string(st, CHOOSE ords \in StoreOrders(st) : TRUE)

\* as CmdInit, or the file holds what an earlier run saved
ConcInit == CmdStart({Missing, Unreadable, FileText(T_no_health), FileText(T_saved)})

notCmd == <<pc, diceVars, modVars, summary, attribVars, charVars, storeVars, rollVars>>

\* a worker that is between two commands
Free(p) == cpc[p] \in {"idle", "done", "failed", "panic"}

\* a handler is entered on worker p: with no argument it returns at once
Begin(p, inputs) ==
    /\ pc = "cmd"
    /\ Free(p)
    /\ \E inp \in inputs :
         /\ input' = [input EXCEPT ![p] = inp]
         /\ cpc' = [cpc EXCEPT ![p] = IF inp.args = <<>> THEN "done" ELSE "load"]
    /\ mem' = [mem EXCEPT ![p] = <<>>]
    /\ hdl' = [hdl EXCEPT ![p] = 0]
    /\ plan' = [plan EXCEPT ![p] = <<>>]
    /\ result' = [result EXCEPT ![p] = NoResult]
    /\ reply' = [reply EXCEPT ![p] = <<>>]
    /\ before' = [before EXCEPT ![p] = file]
    /\ seen' = [seen EXCEPT ![p] = Missing]
    /\ hint' = [hint EXCEPT ![p] = 0]
    /\ cap' = [cap EXCEPT ![p] = 0]
    /\ output' = [output EXCEPT ![p] = <<>>]
    /\ wrote' = [wrote EXCEPT ![p] = 0]
    /\ saved' = [saved EXCEPT ![p] = FALSE]
    /\ started' = started + 1
    /\ UNCHANGED <<expected, shorts, file, saving, written, loaded, notCmd>>

\* commands handled one at a time, by one worker
SeqBegin == started < MaxSeqCmds /\ Begin(1, SeqInputs)

\* commands handled as they arrive, each by the first worker that is free
ConcBegin ==
    /\ started < MaxConcCmds
    /\ \E p \in Workers :
         /\ \A q \in Workers : q < p => ~Free(q)
         /\ Begin(p, ConcInputs)

\* the stack buffer read_to_string probes a file with for more bytes
PROBE_SIZE == 32

\* the least capacity a growing Vec<u8> takes
MIN_NON_ZERO_CAP == 8

\* the capacity a Vec<u8> of capacity c grows to when it has to hold `needed`
Grown(c, needed) ==
    LET twice == IF 2 * c > needed THEN 2 * c ELSE needed
    IN  IF twice > MIN_NON_ZERO_CAP THEN twice ELSE MIN_NON_ZERO_CAP

\* lines 19-20 of either handler once from_file has its content: from_str,
\* the unwrap() of from_file's result, then get_mut
Loaded(p, f) ==
    LET r == from_file(f)
        g == Store_get_mut(r.store, input[p].user)
    IN  IF r.ok
        THEN /\ mem' = [mem EXCEPT ![p] = g.characters]
             /\ hdl' = [hdl EXCEPT ![p] = g.index]
             /\ cpc' = [cpc EXCEPT ![p] = "run"]
        ELSE /\ cpc' = [cpc EXCEPT ![p] = "panic"]
             /\ UNCHANGED <<mem, hdl>>

\* from_file, File::open of fs::read_to_string.  `seen` is what the handler
\* has of the file: nothing yet of a file it could open, or the failure of
\* read_to_string (no file, no permission)
CmdLoadOpen ==
    /\ pc = "cmd"
    /\ \E p \in Workers :
         /\ cpc[p] = "load"
         /\ seen' = [seen EXCEPT ![p] = [state |-> file.state, text |-> <<>>]]
         /\ cpc' = [cpc EXCEPT ![p] = IF file.state = "text" THEN "stat" ELSE "parse"]
    /\ UNCHANGED <<input, mem, hdl, plan, result, reply, before, hint, cap, saved,
                   started, expected, fileVars, notCmd>>

\* fs::read_to_string measures the open file and reserves a String of that
\* capacity
CmdLoadStat ==
    /\ pc = "cmd"
    /\ \E p \in Workers :
         /\ cpc[p] = "stat"
         /\ hint' = [hint EXCEPT ![p] = Len(file.text)]
         /\ cap' = [cap EXCEPT ![p] = Len(file.text)]
         /\ cpc' = [cpc EXCEPT ![p] = "read"]
    /\ UNCHANGED <<input, mem, hdl, plan, result, reply, before, seen, saved,
                   started, expected, fileVars, notCmd>>

\* one read call of fs::read_to_string, at the offset reached, of what the
\* file holds by now.  A String that is full at the capacity first reserved
\* is probed with PROBE_SIZE bytes; otherwise the read asks for the spare
\* capacity, after growing a full String by PROBE_SIZE.  A read that
\* returns nothing ends the content
CmdLoadRead ==
    /\ pc = "cmd"
    /\ \E p \in Workers :
         /\ cpc[p] = "read"
         /\ LET have == Len(seen[p].text)
                probing == have = cap[p] /\ cap[p] = hint[p]
                room == IF probing THEN cap[p]
                        ELSE IF have = cap[p] THEN Grown(cap[p], have + PROBE_SIZE)
                        ELSE cap[p]
                asked == IF probing THEN PROBE_SIZE ELSE room - have
                upto == IF have + asked < Len(file.text) THEN have + asked
                        ELSE Len(file.text)
                bytes == SubSeq(file.text, have + 1, upto)
            IN  /\ seen' = [seen EXCEPT ![p] = FileText(@.text \o bytes)]
                /\ cap' = [cap EXCEPT ![p] =
                             IF probing /\ bytes # <<>>
                             THEN Grown(cap[p], have + Len(bytes))
                             ELSE room]
                /\ cpc' = [cpc EXCEPT ![p] = IF bytes = <<>> THEN "parse" ELSE "read"]
    /\ UNCHANGED <<input, mem, hdl, plan, result, reply, before, hint, saved,
                   started, expected, fileVars, notCmd>>

\* from_file has its content, that of the empty store where read_to_string
\* failed: from_str, and lines 19-20 of the handler
CmdLoadParse ==
    /\ pc = "cmd"
    /\ \E p \in Workers :
         /\ cpc[p] = "parse"
         /\ Loaded(p, seen[p])
    /\ UNCHANGED <<input, plan, result, reply, before, seen, hint, cap, saved,
                   started, expected, fileVars, notCmd>>

\* the if-chain, up to its first call to Discord or to save
CmdRun ==
    /\ pc = "cmd"
    /\ \E p \in Workers :
         /\ cpc[p] = "run"
         /\ LET ran == IF input[p].cmd = "stats"
                       THEN stats(mem[p][hdl[p]], input[p].args)
                       ELSE character_cmd(mem[p][hdl[p]], input[p].args)
            IN  /\ mem' = [mem EXCEPT ![p][hdl[p]] = ran.chr]
                /\ result' = [result EXCEPT ![p] = [outcome |-> ran.outcome,
                                                    counter |-> ran.counter]]
                /\ plan' = [plan EXCEPT ![p] = Plan(input[p].cmd, ran)]
                /\ cpc' = [cpc EXCEPT ![p] =
                             IF Plan(input[p].cmd, ran) = <<>> THEN "done" ELSE "steps"]
    /\ UNCHANGED <<input, hdl, reply, before, seen, hint, cap, saved, started,
                   expected, fileVars, notCmd>>

\* the handler on worker p is past the first of its remaining calls
Advance(p) ==
    /\ plan' = [plan EXCEPT ![p] = Tail(@)]
    /\ cpc' = [cpc EXCEPT ![p] = IF Tail(plan[p]) = <<>> THEN "done" ELSE "steps"]

\* `say(..)?` or `react(..)?`: the line is sent, or the call fails and the
\* handler returns the error
CmdSend ==
    /\ pc = "cmd"
    /\ \E p \in Workers :
         /\ cpc[p] = "steps"
         /\ Head(plan[p]) \in {"say", "react"}
         /\ \E sent \in BOOLEAN :
              IF sent
              THEN /\ reply' = [reply EXCEPT ![p] =
                                  Append(@, Line(input[p].cmd, result[p].outcome,
                                                 result[p].counter))]
                   /\ Advance(p)
              ELSE /\ plan' = [plan EXCEPT ![p] = <<>>]
                   /\ cpc' = [cpc EXCEPT ![p] = "failed"]
                   /\ UNCHANGED reply
    /\ UNCHANGED <<input, mem, hdl, result, before, seen, hint, cap, saved,
                   started, expected, fileVars, notCmd>>

\* `cs.save(&LOAD_PATH)`, up to the opening of the file by fs::write
\* (characters.rs:249-250): the store is serialised and the file is created
\* or truncated.  Where the path cannot be opened for writing save returns
\* the error and the file stays: `?` makes stats return it (stats.rs:46,
\* 69), unwrap() makes character panic (character.rs:47)
CmdSaveOpen ==
    /\ pc = "cmd"
    /\ \E p \in Workers :
         /\ cpc[p] = "steps"
         /\ Head(plan[p]) = "save"
         /\ \/ /\ \E ords \in StoreOrders(SavedStore(mem[p], hdl[p], file)) :
                    Create(p, to_string(SavedStore(mem[p], hdl[p], file), ords))
               /\ plan' = [plan EXCEPT ![p] = <<"write">> \o Tail(@)]
               /\ UNCHANGED cpc
            \/ /\ plan' = [plan EXCEPT ![p] = <<>>]
               /\ cpc' = [cpc EXCEPT ![p] =
                            IF input[p].cmd = "stats" THEN "failed" ELSE "panic"]
               /\ UNCHANGED <<file, output, wrote, shorts>>
    /\ UNCHANGED <<input, mem, hdl, result, reply, before, seen, hint, cap, saved,
                   started, expected, saving, written, loaded, notCmd>>

\* one write call of the write_all of fs::write: it transfers bytes to the
\* file as it is by now, and save returns Ok(()) once all are written; or it
\* fails, the file keeps what was written until then and save returns the
\* error, as above
CmdSaveWrite ==
    /\ pc = "cmd"
    /\ \E p \in Workers :
         /\ cpc[p] = "steps"
         /\ Head(plan[p]) = "write"
         /\ \/ \E n \in WriteCounts(SubSeq(output[p], wrote[p] + 1, Len(output[p])),
                                    shorts) :
                 /\ WriteCall(p, n)
                 /\ IF wrote[p] + n = Len(output[p])
                    THEN /\ Advance(p)
                         /\ saved' = [saved EXCEPT ![p] = TRUE]
                         /\ expected' = Noted(expected, input[p].user, EditsOf(input[p]))
                    ELSE UNCHANGED <<plan, cpc, saved, expected>>
            \/ /\ plan' = [plan EXCEPT ![p] = <<>>]
               /\ cpc' = [cpc EXCEPT ![p] =
                            IF input[p].cmd = "stats" THEN "failed" ELSE "panic"]
               /\ UNCHANGED <<file, output, wrote, shorts, saved, expected>>
    /\ UNCHANGED <<input, mem, hdl, result, reply, before, seen, hint, cap, started,
                   saving, written, loaded, notCmd>>

SeqNext ==
    SeqBegin \/ CmdLoadOpen \/ CmdLoadStat \/ CmdLoadRead \/ CmdLoadParse \/ CmdRun \/ CmdSend \/ CmdSaveOpen \/ CmdSaveWrite

ConcNext ==
    ConcBegin \/ CmdLoadOpen \/ CmdLoadStat \/ CmdLoadRead \/ CmdLoadParse \/ CmdRun \/ CmdSend \/ CmdSaveOpen \/ CmdSaveWrite

-----------------------------------------------------------------------------
(* the command `roll` *)

\* str::trim
RECURSIVE Trim(_)
Trim(t) ==
    IF t = <<>> THEN t
    ELSE IF IsWhitespace(t[1]) THEN Trim(Tail(t))
    ELSE IF IsWhitespace(t[Len(t)]) THEN Trim(SubSeq(t, 1, Len(t) - 1))
    ELSE t

T_roll_prefix == <<"!", "r", "o", "l", "l", " ">>
T_rolled == <<" ", "r", "o", "l", "l", "e", "d", " ">>
T_dice_open == <<" ", "d", "i", "c", "e", " ", "[">>
T_and_got == <<"]", " ", "a", "n", "d", " ", "g", "o", "t", " ">>
T_dice_and_got == <<" ", "d", "i", "c", "e", " ", "a", "n", "d", " ", "g", "o", "t", " ">>
T_chance_succeeded == <<" ", "r", "o", "l", "l", "e", "d", " ", "a", " ", "c", "h", "a", "n", "c", "e", " ", "d", "i", "e", " ", "a", "n", "d", " ", "s", "u", "c", "c", "e", "e", "d", "e", "d", "!">>
T_chance_failed == <<" ", "r", "o", "l", "l", "e", "d", " ", "a", " ", "c", "h", "a", "n", "c", "e", " ", "d", "i", "e", " ", "a", "n", "d", " ", "f", "a", "i", "l", "e", "d", ":", " ">>
T_warning ==
    <<"\n", "\n">> \o <<"W", "a", "r", "n", "i", "n", "g", ":", " ", "t", "h", "e", "s", "e", " ", "a", "t", "t", "r", "i", "b", "u", "t", "e", "s", " ", "w", "e", "r", "e", " ", "n", "o", "t", " ", "f", "o", "u", "n", "d", " ", "a", "n", "d", " ", "d", "e", "f", "a", "u", "l", "t", "e", "d", " ", "t", "o", " ", "0", ":", " ">>

\* MessageBuilder::mention
Mention(a) == <<"<", "@">> \o a.id \o <<">">>

\* the Display of a Roll
RollText(r) == IF r.is_bonus THEN <<"(">> \o NatToString(r.val) \o <<")">> ELSE NatToString(r.val)

\* the rolls, joined with ", "
RollsText(rs) == Join([k \in 1..Len(rs) |-> RollText(rs[k])], <<",", " ">>)

\* the resolved attributes as "name = value", joined with ", ", in the order
\* `ord` the map iterates in
AttributesText(attrs, ord) ==
    Join([k \in 1..Len(ord) |-> ord[k] \o <<" ", "=", " ">> \o I64ToString(attrs[ord[k]])],
         <<",", " ">>)

\* lines 217-245: the response to a roll of a number of dice or of the
\* chance die
DirectResponse(a, d, rs) ==
    IF d = CHANCE
    THEN IF rs[1].val = 10 THEN Mention(a) \o T_chance_succeeded
         ELSE Mention(a) \o T_chance_failed \o NatToString(rs[1].val)
    ELSE Mention(a) \o T_rolled \o d \o T_dice_and_got \o count_successes(rs) \o RollsText(rs)

\* lines 257-290: the response to a roll of attributes, the warning appended
\* when a name was not found
AttribResponse(a, pl, attrs, ord, rs, missing) ==
    Mention(a) \o T_rolled \o I64ToString(pl) \o T_dice_open \o AttributesText(attrs, ord)
      \o T_and_got \o count_successes(rs) \o RollsText(rs)
      \o (IF missing # <<>> THEN T_warning \o Join(missing, <<",", " ">>) ELSE <<>>)

\* the authors: Al has a character in the file, Bo has none
RollAuthors == {[name |-> T_Al, id |-> <<"1">>], [name |-> T_Bo, id |-> <<"2">>]}

\* the store of the file: Al with strength 3 and athletics 1
RollStore == <<set_value(set_value(Character_new(T_Al), T_strength, 3), T_athletics, 1)>>

RollContents ==
    { <<"!", "r", "o", "l", "l">>,
      <<"!", "r", "o", "l", "l", " ", "c", "h", "a", "n", "c", "e">>,
      <<"!", "r", "o", "l", "l", " ", "2", " ", "8", "a", "g", "a", "i", "n">>,
      <<"!", "r", "o", "l", "l", " ", "s", "t", "r", "e", "n", "g", "t", "h">>,
      <<"!", "r", "o", "l", "l", " ", "s", "t", "r", "e", "n", "g", "t", "h", " ", "-", " ", "1">>,
      <<"!", "r", "o", "l", "l", " ", "s", "t", "r", "e", "n", "g", "t", "h", " ", "+", " ", "a", "t", "h", "l", "e", "t", "i", "c", "s", " ", "-", " ", "1", " ", "9", "a", "g", "a", "i", "n">>,
      <<"!", "r", "o", "l", "l", " ", "s", "t", "r", "e", "n", "g", "t", "h", " ", "+", " ", "w", "i", "t", "s">> }

RollIdle ==
    /\ stage = "idle"
    /\ author = [name |-> <<>>, id |-> <<>>]
    /\ content = <<>>
    /\ response = <<>>

\* a message for `roll` has arrived
RollInit ==
    /\ pc = "roll"
    /\ stage = "idle"
    /\ author \in RollAuthors
    /\ content \in RollContents
    /\ response = <<>>
    /\ file \in {Missing, FileText(T_no_health)}
                 \cup {FileText(to_string(RollStore, ords)) : ords \in StoreOrders(RollStore)}
    /\ saving = None /\ written = "none" /\ loaded = None
    /\ NoWrite

notRoll == <<modVars, summary, charVars, storeVars, fileVars, cmdVars>>

\* lines 210-216 and 249-255: with no argument the handler returns; a first
\* argument that is "chance" or a number goes to roll_dice with the modifier
\* of the whole message; anything else loads the store, takes the author's
\* character or a new one, and goes to roll_attribs with the message less
\* its "!roll " prefix
RollBegin ==
    /\ pc = "roll"
    /\ stage = "idle"
    /\ LET args == Tail(split_whitespace(content))
           cs == from_file(file)
           own == Store_get(cs.store, author.name)
       IN  IF args = <<>>
           THEN /\ stage' = "returned"
                /\ UNCHANGED <<pc, diceVars, attribVars>>
           ELSE IF args[1] = CHANCE \/ REGEX_NUMERIC(args[1])
           THEN /\ dice' = args[1]
                /\ modifier' = mod_for_str(content)
                /\ pc' = "start"
                /\ stage' = "direct"
                /\ UNCHANGED <<rolls, first, remaining, again, attribVars>>
           ELSE IF ~cs.ok
           THEN /\ pc' = "panic"
                /\ stage' = "load"
                /\ UNCHANGED <<diceVars, attribVars>>
           ELSE /\ character' = IF own = None THEN Character_new(author.name) ELSE own.val
                /\ line' = Replace(Trim(content), T_roll_prefix, <<>>)
                /\ pc' = "attribs"
                /\ stage' = "attribs"
                /\ UNCHANGED <<diceVars, modifier_token, parts, idx, pool, multiplier,
                               attributes, attribs_not_found>>
    /\ UNCHANGED <<author, content, response, notRoll>>

\* line 256: roll_dice on the pool as a text, with the modifier roll_attribs
\* returned
RollCallDice ==
    /\ stage = "attribs"
    /\ pc = "done"
    /\ dice' = I64ToString(pool)
    /\ pc' = "start"
    /\ stage' = "dice"
    /\ UNCHANGED <<modifier, rolls, first, remaining, again, attribVars,
                   author, content, response, notRoll>>

\* lines 217-246 and 257-291: the response is built and sent with `say(..)?`
RollRespond ==
    /\ stage \in {"direct", "dice"}
    /\ pc = "done"
    /\ \E ord \in Orders(DOMAIN attributes) :
         response' = IF stage = "direct" THEN DirectResponse(author, dice, rolls)
                     ELSE AttribResponse(author, pool, attributes, ord, rolls,
                                         attribs_not_found)
    /\ \E sent \in BOOLEAN : stage' = IF sent THEN "responded" ELSE "failed"
    /\ UNCHANGED <<pc, diceVars, attribVars, author, content, notRoll>>

RollNext ==
    \/ RollBegin
    \/ AttribsScan
    \/ AttribsPart
    \/ AttribsReturn
    \/ RollCallDice
    \/ RollChance
    \/ RollParse
    \/ RollStep
    \/ RollRespond

-----------------------------------------------------------------------------
(* Specifications *)

\* nothing of the store, the file or the commands is in use
SysIdle == StoreIdle /\ FileIdle /\ CmdIdle /\ RollIdle

\* none of the functions above is running
OldIdle == DiceIdle /\ ModIdle /\ CountIdle /\ AttribIdle /\ CharIdle

vars == <<pc, diceVars, modVars, summary, attribVars, charVars, sysVars>>

\* roll_dice on every input text and modifier
InitDice == DiceInit /\ ModIdle /\ CountIdle /\ AttribIdle /\ CharIdle /\ SysIdle

SpecDice == InitDice /\ [][DiceNext]_vars

\* mod_for_str on every input text
InitMod == ModInit /\ DiceIdle /\ CountIdle /\ AttribIdle /\ CharIdle /\ SysIdle

SpecMod == InitMod /\ [][ModForStr]_vars

\* roll_attribs on every character and line
InitAttribs ==
    /\ AttribInit /\ ModIdle /\ CountIdle /\ CharIdle /\ SysIdle
    /\ dice = <<>> /\ modifier = "Again10" /\ rolls = <<>>
    /\ first = TRUE /\ remaining = 0 /\ again = FALSE

SpecAttribs == InitAttribs /\ [][AttribNext]_vars

\* set_value and get_value calls on one character, in any order
InitChar == CharInit /\ DiceIdle /\ ModIdle /\ CountIdle /\ SysIdle

SpecChar == InitChar /\ [][CharNext]_vars

\* get, get_mut and set_value calls on a store that starts empty
InitStore == StoreInit /\ OldIdle /\ FileIdle /\ CmdIdle /\ RollIdle

SpecStore == InitStore /\ [][StoreNext]_vars

\* count_successes on every roll slice
InitFile == FileInit /\ OldIdle /\ StoreIdle /\ CmdIdle /\ RollIdle

SpecFile == InitFile /\ [][FileNext]_vars

InitSeq == CmdInit /\ OldIdle /\ StoreIdle /\ RollIdle

SpecSeq == InitSeq /\ [][SeqNext]_vars

InitConc == ConcInit /\ OldIdle /\ StoreIdle /\ RollIdle

SpecConc == InitConc /\ [][ConcNext]_vars

InitRoll ==
    /\ RollInit /\ DiceIdle /\ ModIdle /\ CountIdle /\ AttribIdle /\ CharIdle
    /\ StoreIdle /\ CmdIdle

SpecRoll == InitRoll /\ [][RollNext]_vars

InitCount == CountInit /\ ModIdle /\ AttribIdle /\ CharIdle /\ SysIdle

SpecCount == InitCount /\ [][CountSuccesses]_vars

-----------------------------------------------------------------------------
(* The dice engine: C1 - C4 *)

\* the (modifier, value) pairs that re-roll, written out from the rules
TriggerTable ==
    {<<"Again10", 10>>,
     <<"Again9", 9>>, <<"Again9", 10>>,
     <<"Again8", 8>>, <<"Again8", 9>>, <<"Again8", 10>>}

Triggers(r) == <<modifier, r.val>> \in TriggerTable

IntegerPool == dice # CHANCE /\ pc \in {"loop", "done"}

\* C1: in the roll set of an integer pool a roll is immediately followed by a
\* bonus roll exactly when its own value triggers a re-roll under the modifier,
\* bonus rolls included, and the returned set ends on a non-triggering value.
C1_ChainIffTrigger ==
    IntegerPool =>
        /\ \A i \in 1..(Len(rolls) - 1) : rolls[i + 1].is_bonus <=> Triggers(rolls[i])
        /\ (pc = "done" /\ rolls # <<>>) => ~Triggers(rolls[Len(rolls)])

\* a returned set in which a bonus roll itself re-rolled
C1_Witness ==
    /\ IntegerPool /\ pc = "done" /\ Len(rolls) >= 3
    /\ Triggers(rolls[1]) /\ rolls[2].is_bonus
    /\ Triggers(rolls[2]) /\ rolls[3].is_bonus

NonBonus == {i \in 1..Len(rolls) : ~rolls[i].is_bonus}

\* C2: for a pool n >= 0 the returned set holds exactly n non-bonus rolls, its
\* first roll is non-bonus, every value lies in 1..10, pool 0 gives the empty
\* set, and under NoAgain the set is exactly n rolls, none a bonus.
C2_PoolShape ==
    \A n \in 0..MaxPool :
        (pc = "done" /\ dice = NatToString(n)) =>
            /\ Cardinality(NonBonus) = n
            /\ n > 0 => (rolls # <<>> /\ ~rolls[1].is_bonus)
            /\ \A i \in 1..Len(rolls) : rolls[i].val \in 1..10
            /\ n = 0 => rolls = <<>>
            /\ modifier = "NoAgain" => (Len(rolls) = n /\ NonBonus = 1..n)

\* a pool of 2 whose first die chained and whose second did not
C2_Witness ==
    /\ pc = "done" /\ dice = <<"2">> /\ Len(rolls) = 3
    /\ rolls[2].is_bonus /\ ~rolls[3].is_bonus

\* C3: "chance" returns exactly one non-bonus roll for every modifier and every
\* drawn value; no re-roll is applied.
C3_ChanceOneRoll ==
    (dice = CHANCE /\ pc # "start") =>
        /\ pc = "done"
        /\ Len(rolls) = 1
        /\ ~rolls[1].is_bonus
        /\ rolls[1].val \in 1..10

\* a chance die that drew 8 under Again8
C3_Witness ==
    /\ dice = CHANCE /\ pc = "done" /\ modifier = "Again8"
    /\ rolls = <<Roll(8, FALSE)>>

\* C4: roll_again(v, m) is true exactly for (Again10, 10), (Again9, 9..10) and
\* (Again8, 8..10), and is false for every v under NoAgain.
C4_RollAgainTable ==
    (IntegerPool /\ rolls # <<>>) =>
        /\ again <=> Triggers(rolls[Len(rolls)])
        /\ modifier = "NoAgain" => ~again

\* roll_again said yes to a 9 under Again9
C4_Witness ==
    /\ IntegerPool /\ rolls # <<>> /\ again
    /\ modifier = "Again9" /\ rolls[Len(rolls)].val = 9

-----------------------------------------------------------------------------
(* The modifier resolver: C5 *)

\* containment stated directly: some offset at which the word occurs
HasWord(t, w) == \E i \in 0..Len(t) : StartsAt(t, w, i)

\* C5: mod_for_str answers for every text, by containment with the precedence
\* no10again, then 9again, then 8again, and Again10 for every other text,
\* the empty one included.
C5_ModPrecedence ==
    pc = "done" =>
        /\ mod_result \in RollModifier
        /\ HasWord(s, T_no10again) => mod_result = "NoAgain"
        /\ (~HasWord(s, T_no10again) /\ HasWord(s, T_9again)) => mod_result = "Again9"
        /\ (~HasWord(s, T_no10again) /\ ~HasWord(s, T_9again) /\ HasWord(s, T_8again))
              => mod_result = "Again8"
        /\ (~HasWord(s, T_no10again) /\ ~HasWord(s, T_9again) /\ ~HasWord(s, T_8again))
              => mod_result = "Again10"

\* "x8again9again ": both words inside a longer text, the 9again rule wins
C5_Witness ==
    /\ pc = "done"
    /\ s = <<"x">> \o T_8again \o T_9again \o <<" ">>
    /\ mod_result = "Again9"

-----------------------------------------------------------------------------
(* The formatter: C6 *)

Successes == Cardinality({i \in 1..Len(rolls) : rolls[i].val > 7})

\* a decimal numeral of n: digits only, no leading zero, of value n
IsNumeralOf(t, n) ==
    /\ AllDigits(t)
    /\ Len(t) > 1 => t[1] # "0"
    /\ DigitsValue(t) = n

\* C6: count_successes returns "<n> success: " when n = 1 and
\* "<n> successes: " otherwise, n the number of rolls valued above 7, bonus
\* or not.
C6_CountSuccesses ==
    pc = "done" =>
        \E k \in 1..Len(summary) :
            /\ IsNumeralOf(SubSeq(summary, 1, k), Successes)
            /\ SubSeq(summary, k + 1, Len(summary)) =
                  <<" ">> \o (IF Successes = 1 THEN T_success ELSE T_successes)
                        \o <<":", " ">>

\* one success, and it is a bonus roll
C6_Witness ==
    /\ pc = "done"
    /\ rolls = <<Roll(7, FALSE), Roll(9, TRUE)>>
    /\ summary = <<"1", " ">> \o T_success \o <<":", " ">>

-----------------------------------------------------------------------------
(* The expression evaluator: C7 - C9 *)

T_plus == <<"+">>
T_minus == <<"-">>

IsOperator(part) == part \in {T_plus, T_minus}

IsOperand(part) == ~IsOperator(part)

IsAttribName(part) == ~AllDigits(part) /\ ~IsOperator(part)

\* two characters that are the same letter, whatever their case
SameLetter(a, b) ==
    \/ a = b
    \/ \E k \in 1..26 : {a, b} = {UpperChars[k], LowerChars[k]}

\* two texts equal ignoring letter case
SameIgnoringCase(a, b) ==
    Len(a) = Len(b) /\ \A i \in 1..Len(a) : SameLetter(a[i], b[i])

\* the character has a stat of that name
Has(c, name) == \E k \in DOMAIN c.stats : SameIgnoringCase(k, name)

Stored(c, name) ==
    IF Has(c, name)
    THEN c.stats[CHOOSE k \in DOMAIN c.stats : SameIgnoringCase(k, name)]
    ELSE 0

\* the value of an operand: the literal, or the stored value, 0 if absent
OperandValue(part) ==
    IF AllDigits(part) THEN DigitsValue(part) ELSE Stored(character, part)

\* -1 when a "-" stands between the previous operand (or the start) and the
\* operand at position i, +1 otherwise
ClaimedSign(i) ==
    IF \E j \in 1..(i - 1) :
          /\ parts[j] = T_minus
          /\ \A k \in j..(i - 1) : IsOperator(parts[k])
    THEN -1 ELSE 1

RECURSIVE ClaimedPool(_)
ClaimedPool(n) ==
    IF n = 0 THEN 0
    ELSE ClaimedPool(n - 1)
           + (IF IsOperand(parts[n]) THEN OperandValue(parts[n]) * ClaimedSign(n) ELSE 0)

\* C7: the pool returned by roll_attribs is the sum over the operands of
\* value x sign, the sign -1 exactly when at least one "-" stands between the
\* previous operand and this one; a "+" changes neither pool nor pending sign.
C7_SignedSum ==
    pc = "done" => pool = ClaimedPool(Len(parts))

Seen == SubSeq(parts, 1, idx - 1)

SeenNames == {Seen[i] : i \in 1..Len(Seen)}

IsMissingName(part) == IsAttribName(part) /\ ~Has(character, part)

T_example ==
    T_strength \o <<" ", "+", " ">> \o T_athletics \o <<" ", "-", " ", "1">>

\* the tokens walked so far are recorded in exactly one place each
C8_Recorded ==
    pc \in {"walk", "done"} =>
        /\ attribs_not_found = SelectSeq(Seen, IsMissingName)
        /\ DOMAIN attributes =
              {p \in SeenNames : IsAttribName(p) /\ Has(character, p)}
        /\ \A p \in DOMAIN attributes : attributes[p] = Stored(character, p)
        /\ \A p \in SeenNames :
              IsAttribName(p) =>
                 (p \in DOMAIN attributes)
                    # (\E i \in 1..Len(attribs_not_found) : attribs_not_found[i] = p)
        /\ (pc = "done" /\ line = T_example) =>
              IF character.stats = EmptyMap
              THEN pool = -1 /\ attribs_not_found = <<T_strength, T_athletics>>
              ELSE pool = 3 /\ attribs_not_found = <<>>

\* walking a name the character lacks leaves the pool as it was
C8_MissingAddsZero ==
    (pc = "walk" /\ idx <= Len(parts) /\ IsMissingName(parts[idx])) => pool' = pool

\* C8: every attribute-name token is recorded in exactly one place, the
\* attributes map with its stored value when the character has it, else
\* attribs_not_found as the raw token in encounter order, adding 0 to the
\* pool; "strength + athletics - 1" gives pool -1 and [strength, athletics]
\* on an empty character, pool 3 and nothing missing with strength = 3 and
\* athletics = 1.
C8_NamesRecordedOnce == [](C8_Recorded) /\ [][C8_MissingAddsZero]_vars

\* the example on the empty character: both names missing, pool -1
C8_Witness ==
    /\ pc = "done"
    /\ line = T_example
    /\ character.stats = EmptyMap
    /\ attribs_not_found = <<T_strength, T_athletics>>
    /\ pool = -1

\* the tokens of a line, each split at its operators
RECURSIVE Operands(_)
Operands(ts) ==
    IF ts = <<>> THEN <<>>
    ELSE split_whitespace(Normalise(Head(ts))) \o Operands(Tail(ts))

\* the sequence without its k-th element
Without(ts, k) == SubSeq(ts, 1, k - 1) \o SubSeq(ts, k + 1, Len(ts))

\* C9: the modifier token is the first whitespace-separated token matching
\* the re-roll grammar and only that one token leaves the line: every other
\* token, a later equal one or one containing it included, is evaluated as
\* it stands; with no match nothing is removed and the modifier is Again10.
C9_OnlyFirstTokenRemoved ==
    LET toks == split_whitespace(line)
        hits == {k \in 1..Len(toks) : REGEX_AGAIN(toks[k])}
    IN  pc \in {"walk", "done"} =>
            IF hits = {}
            THEN /\ parts = Operands(toks)
                 /\ pc = "done" => modifier = "Again10"
            ELSE LET k == CHOOSE h \in hits : \A g \in hits : h <= g
                 IN  /\ modifier_token = toks[k]
                     /\ parts = Operands(Without(toks, k))

-----------------------------------------------------------------------------
(* The attribute store: C10 *)

\* the set_value calls among the first n whose key is k up to letter case
CallsFor(k, n) == {i \in 1..n : SameIgnoringCase(calls[i][1], k)}

\* what get_value(k) is to return after the first n set_value calls
Expected(k, n) ==
    IF CallsFor(k, n) = {} THEN <<FALSE, 0>>
    ELSE LET last == CHOOSE i \in CallsFor(k, n) : \A j \in CallsFor(k, n) : j <= i
         IN  <<TRUE, calls[last][2]>>

C10_LastWriteRead ==
    /\ got # NoCall => got.result = Expected(got.key, got.after)
    /\ \A k \in CharKeys : get_value(character, k) = Expected(k, Len(calls))

\* a set_value leaves every key that differs beyond letter case as it was
C10_OtherKeysKept ==
    calls' # calls =>
        \A k \in CharKeys :
            ~SameIgnoringCase(k, calls'[Len(calls')][1]) =>
                get_value(character', k) = get_value(character, k)

\* C10: after any sequence of set_value calls get_value(k) returns (true, v),
\* v the value of the most recent set_value whose key equals k ignoring letter
\* case, and (false, 0) when there was none; a set_value on one key leaves
\* the value of every key that differs beyond letter case unchanged.
C10_GetAfterSet == [](C10_LastWriteRead) /\ [][C10_OtherKeysKept]_vars

\* "aB" set to 5, "Ab" then set to 0, and get_value("aB") returned (true, 0)
C10_Witness ==
    /\ calls = <<<<<<"a", "B">>, 5>>, <<<<"A", "b">>, 0>>>>
    /\ got = [key |-> <<"a", "B">>, result |-> <<TRUE, 0>>, after |-> 2]

-----------------------------------------------------------------------------
(* The character store: C11 *)

NamesUnique ==
    \A i, j \in 1..Len(store) : store[i].name = store[j].name => i = j

Exists(name) == \E i \in 1..Len(store) : store[i].name = name

\* what one call does to the store
C11_CallEffect ==
    LET name == call'.name
    IN  /\ call'.op = "get" =>
              /\ store' = store
              /\ fetched' = IF Exists(name)
                             THEN Some(CHOOSE c \in {store[i] : i \in 1..Len(store)} :
                                          c.name = name)
                             ELSE None
        /\ call'.op = "get_mut" =>
              IF Exists(name)
              THEN store' = store /\ store[handle'].name = name
              ELSE /\ store' = Append(store, [name |-> name, stats |-> EmptyMap,
                                               health |-> [max |-> 0, bashing |-> 0,
                                                           lethal |-> 0, aggravated |-> 0]])
                   /\ handle' = Len(store) + 1

\* C11: from an empty store, after any get and get_mut calls there is at most
\* one character per exact name; get_mut appends a character with empty stats
\* and zero health only when none has exactly that name and otherwise returns
\* the existing one unchanged, names differing in case are distinct
\* characters, and get never changes the store.
C11_OnePerName == [](NamesUnique) /\ [][C11_CallEffect]_vars

\* "Al" with a stat and "al" side by side, and get_mut("Al") returned the first
C11_Witness ==
    /\ Len(store) = 2
    /\ store[1].name = T_Al /\ store[1].stats # EmptyMap
    /\ store[2].name = T_al
    /\ call = [op |-> "get_mut", name |-> T_Al]
    /\ handle = 1

-----------------------------------------------------------------------------
(* C12 *)

\* the empty store, returned without an error
OkEmpty == [ok |-> TRUE, store |-> <<>>]

\* from_file returned the store given to save: the same characters in the
\* same order, each with the same name and the same stat map
SameCharacters ==
    /\ loaded.ok
    /\ Len(loaded.store) = Len(saving.val)
    /\ \A i \in 1..Len(saving.val) :
          /\ loaded.store[i].name = saving.val[i].name
          /\ loaded.store[i].stats = saving.val[i].stats

\* C12 as stated: for every store, a successful save followed by from_file
\* on the same path returns a store with the same characters in the same
\* order, each with the same name and the same stat map.
C12_RoundTrip ==
    (pc = "loaded" /\ written = "ok") => SameCharacters

\* C12, amended: a successful save followed by from_file on the same path
\* returns a store with the same characters in the same order, each with the
\* same name and the same stat map, where the bot can read the file; where
\* it can write the file but not read it, from_file returns the empty store.
C12_RoundTripWhenReadable ==
    (pc = "loaded" /\ written = "ok") =>
        IF file.state = "text" THEN SameCharacters ELSE loaded = OkEmpty

\* a store of two characters, one named with a quote and holding two stats,
\* was saved and loaded back
C12_Witness ==
    /\ pc = "loaded" /\ written = "ok" /\ loaded.ok
    /\ Len(saving.val) = 2
    /\ saving.val[1].name = <<"b", QUOTE>>
    /\ Cardinality(DOMAIN saving.val[1].stats) = 2
    /\ saving.val[2].name = <<"A">>
    /\ loaded.store = saving.val

-----------------------------------------------------------------------------
(* C13 *)

\* from_file has returned, for the file as it is now
HasLoaded == pc \in {"loaded", "ready", "panic"}

\* C13: from_file returns an empty store, and no error, both when the file
\* is missing or unreadable and when its content cannot be parsed, and a
\* command that loads the store never fails because of the content.
C13_EmptyOnAnyFailure ==
    (HasLoaded /\ (file.state # "text" \/ file.text \in UnparseableTexts)) =>
        loaded = OkEmpty /\ pc # "panic"

-----------------------------------------------------------------------------
(* C14 *)

\* an edit with the wrong number of arguments
WrongCount(inp) == inp.args # <<>> /\ inp.args[1] = T_edit /\ Len(inp.args) # 3

\* an edit whose value is no integer
NotInteger(inp) ==
    inp.args # <<>> /\ inp.args[1] = T_edit /\ Len(inp.args) = 3 /\ ~ParseI64(inp.args[3]).ok

\* item is name=integer
IsAssignment(item) ==
    \E k \in 1..Len(item) :
        /\ item[k] = "="
        /\ \A j \in 1..Len(item) : item[j] = "=" => j = k
        /\ ParseI64(SubSeq(item, k + 1, Len(item))).ok

\* a bulk edit with an item that is not name=integer
BadBulk(inp) ==
    /\ inp.cmd = "stats" /\ inp.args # <<>> /\ inp.args[1] = T_bulk
    /\ \E k \in 2..Len(inp.args) : ~IsAssignment(inp.args[k])

Rejected(inp) == WrongCount(inp) \/ NotInteger(inp) \/ BadBulk(inp)

\* the error lines
ErrorLines ==
    { <<"!stats edit <stat_name> <stat_value>", 0>>,
      <<"!character edit <stat_name> <stat_value>", 0>>,
      <<"The <stat_value> argument must be a number", 0>>,
      <<"Bulk-editing stats is done in the form: name1=value1 name2=value2 name3=value3 ...", 0>>,
      <<"Bulk-editing stats values must be whole numbers, i.e. 1, 49, 0", 0>> }

\* C14: a rejected stat edit (wrong argument count, a value that is no
\* integer, a bulk edit with an item that is not name=integer) replies with
\* the error line and returns without saving: the handler does not panic,
\* the line it sends is the error line, and the persisted store is as it
\* was, with none of the valid bulk items before the bad one and no new
\* character.
C14_RejectedNotSaved ==
    \A p \in Workers :
        Rejected(input[p]) =>
            /\ file = before[p]
            /\ ~saved[p]
            /\ cpc[p] # "panic"
            /\ cpc[p] = "done" => Len(reply[p]) = 1 /\ reply[p][1] \in ErrorLines
            /\ cpc[p] # "done" => reply[p] = <<>>

-----------------------------------------------------------------------------
(* C16 *)

\* the store the file holds
Persisted == IF file.state = "missing" THEN OkEmpty ELSE from_str(file.text)

\* no command is being handled
Quiet == \A p \in Workers : cpc[p] \in {"idle", "done", "failed", "panic"}

\* character c after the edits, in order
RECURSIVE Applied(_, _)
Applied(c, edits) ==
    IF edits = <<>> THEN c
    ELSE Applied(set_value(c, Head(edits)[1], Head(edits)[2]), Tail(edits))

\* the store `st` with the edits of an invocation made to its author's
\* character
AfterEdits(st, inp) ==
    LET g == Store_get_mut(st, inp.user)
    IN  [g.characters EXCEPT ![g.index] = Applied(@, EditsOf(inp))]

\* the store `held` has, for every user and stat key, the value of the last
\* accepted edit of that user and key, and nothing else
EditsHeld(held) ==
    /\ expected # EmptyMap => held.ok
    /\ held.ok =>
          /\ \A uk \in DOMAIN expected :
                /\ Store_get(held.store, uk[1]) # None
                /\ get_value(Store_get(held.store, uk[1]).val, uk[2])
                      = <<TRUE, expected[uk]>>
          /\ \A i \in 1..Len(held.store) : \A k \in DOMAIN held.store[i].stats :
                <<held.store[i].name, k>> \in DOMAIN expected

\* C16: with edit commands handled one at a time, after any accepted edits
\* by any users the persisted store holds, for every user and stat key, the
\* value of the last accepted edit of that user and key, and no accepted
\* edit of another user or key is lost.  An edit is accepted when its save
\* returned Ok(()); the claim is stated for a file the bot can read, between
\* two commands.
C16_LastEditsPersisted ==
    LET held == Persisted
    IN  (Quiet /\ file.state \in {"missing", "text"}) => EditsHeld(held)

-----------------------------------------------------------------------------
(* C17 *)

\* C17: no lock surrounds load-mutate-save, so when two edit commands
\* interleave the later save overwrites the whole file: whenever the file
\* holds the text a handler's completed save wrote, the persisted store is
\* what that handler loaded plus its own edit, whatever was saved since it
\* loaded, and the stat set by the earlier save is lost, also when the two
\* edits are by different users.
C17_LaterSaveOverwrites ==
    \A p \in Workers :
        (saved[p] /\ file.text = output[p]) =>
            from_str(file.text) =
                [ok |-> TRUE, store |-> AfterEdits(from_file(seen[p]).store, input[p])]

\* both saves completed, Al's first and Bo's second, both having loaded the
\* empty store: the file holds Bo alone, Al's str is gone
C17_Witness ==
    /\ cpc = [p \in Workers |-> "done"]
    /\ saved = [p \in Workers |-> TRUE]
    /\ seen = [p \in Workers |-> Missing]
    /\ input[1].user = T_Al /\ input[2].user = T_Bo
    /\ file.state = "text" /\ file.text = output[2]
    /\ <<T_Al, T_str>> \in DOMAIN expected
    /\ Store_get(from_str(file.text).store, T_Al) = None
    /\ Store_get(from_str(file.text).store, T_Bo) # None

-----------------------------------------------------------------------------
(* C15 *)

\* C15: an attribute roll that names attributes the character does not have
\* still executes: the names default to 0, roll_dice runs on the pool, also
\* when the remaining terms make the pool negative, and the response carries
\* the warning; the command does not fail.
C15_MissingNamesStillRoll ==
    (attribs_not_found # <<>> /\ stage \in {"dice", "responded"}) =>
        /\ pc # "panic"
        /\ stage = "responded" => Contains(response, T_warning)

=============================================================================
